---- MODULE Spec2Model ----
(***************************************************************************)
(* Model of the vision-lab perception pipeline: the Camera component       *)
(* (landmark capabilities face / hand / body: on-demand model loading,     *)
(* debounced detection start, render loop) and the ObjectDetector          *)
(* component (ONNX session, self-rescheduling detection loop).             *)
(*                                                                         *)
(* A React commit (render, effect cleanups, effects, and the re-render     *)
(* caused by state set inside those effects) is one step.  Every           *)
(* asynchronous continuation (a resolved await, a timer, a model           *)
(* callback, an animation frame) is a step of its own.                     *)
(***************************************************************************)
EXTENDS Integers, Sequences, FiniteSets, TLC

(* ----- bounds ----- *)
MaxResult == 1          \* results are 0 (the empty list) or 1..MaxResult
MaxLoads == 2           \* loadModels invocations suspended at an await
MaxInputs == 4          \* mode / camera / variant inputs of one session
MaxTimedInputs == 3     \* inputs of one session of the timed specification
MaxClicks == 4          \* object-detector inputs (upload, start, stop)
MaxRuns == 2            \* object-detector chains (session.run or timer)
MaxUploads == 1         \* model uploads in progress
MaxTime == 3            \* clock ticks followed by the timed specification
TickMs == 250           \* clock granularity
MaxAgeMs == 520         \* oldest result age given to the opacity computation
MaxBoxes == 3           \* candidates given to nonMaxSuppression
MaxRows == 2            \* rows of a decoded output tensor
MaxRules == 2           \* rules of the combination classifier

(* ----- program constants ----- *)
StaleMs == 500
FadeStartMs == 200
FadeSpanMs == 300
Hundredths == 100       \* scores and thresholds are in steps of 0.01

Caps == {"face", "hand", "body"}
AllCaps == Caps \cup {"object"}
TimedCaps == {"hand", "body"}
Variants == {"MoveNet", "BlazePose"}
Null == "null"
Results == 0..MaxResult
(* the capabilities one session toggles: two landmark capabilities, the     *)
(* object detector, or the object detector next to a landmark capability;  *)
(* a timed session also follows the clock                                  *)
Sessions == {{"face", "hand"}, {"face", "body"}, {"hand", "body"}, {"object"},
             {"face", "object"}}
Scopes == [modes : Sessions, timed : BOOLEAN]

VARIABLES
  \* App / Camera props
  isActive, activeModes, bodyPoseModel,
  \* Camera state and refs
  stream, modelsLoaded, error, modelVersion,
  modelRef, modelsLoadedRef, isDetectingRef, activeModesRef,
  bodyPoseModelRef, latestPredictionsRef, lastDetectTimeRef,
  objectDetectionsRef, detectionStartTimeout, detectionInterval,
  closureModes, loads, gumPending, srcObject, videoReady,
  loop, oldLoop, painted, frameAt, storedAt,
  \* Camera: closure of the camera effect, media tracks, frame callbacks
  currentStream, staleGums, streamLive, strayTracks, lateStopped,
  pendingFrames, animationFrameRef, mounted,
  \* GestureTrainer / BodyTrainer: the classification loop
  trainer,
  \* ObjectDetector state and refs
  sessionRef, isLoading, uploads, objDetectingRef, detectionTimerRef,
  strayTimers, inflight, detections, objError,
  \* environment
  now, inputs, clicks, scope,
  \* a pure function under evaluation: its arguments and its return value
  call, ret

compVars == <<isActive, activeModes, bodyPoseModel,
  stream, modelsLoaded, error, modelVersion,
  modelRef, modelsLoadedRef, isDetectingRef, activeModesRef,
  bodyPoseModelRef, latestPredictionsRef, lastDetectTimeRef,
  objectDetectionsRef, detectionStartTimeout, detectionInterval,
  closureModes, loads, gumPending, srcObject, videoReady,
  loop, oldLoop, painted, frameAt, storedAt,
  currentStream, staleGums, streamLive, strayTracks, lateStopped,
  pendingFrames, animationFrameRef, mounted, trainer,
  sessionRef, isLoading, uploads, objDetectingRef, detectionTimerRef,
  strayTimers, inflight, detections, objError>>

vars == <<compVars, now, inputs, clicks, scope, call, ret>>

(* The components' fields as one record, so that a handler is a function   *)
(* from record to record and handlers compose in program order.            *)
Cur ==
  [isActive |-> isActive, activeModes |-> activeModes,
   bodyPoseModel |-> bodyPoseModel, stream |-> stream,
   modelsLoaded |-> modelsLoaded, error |-> error,
   modelVersion |-> modelVersion, modelRef |-> modelRef,
   modelsLoadedRef |-> modelsLoadedRef, isDetectingRef |-> isDetectingRef,
   activeModesRef |-> activeModesRef, bodyPoseModelRef |-> bodyPoseModelRef,
   latestPredictionsRef |-> latestPredictionsRef,
   lastDetectTimeRef |-> lastDetectTimeRef,
   objectDetectionsRef |-> objectDetectionsRef,
   detectionStartTimeout |-> detectionStartTimeout,
   detectionInterval |-> detectionInterval, closureModes |-> closureModes,
   loads |-> loads, gumPending |-> gumPending, srcObject |-> srcObject,
   videoReady |-> videoReady, loop |-> loop, oldLoop |-> oldLoop,
   painted |-> painted, frameAt |-> frameAt, storedAt |-> storedAt,
   currentStream |-> currentStream, staleGums |-> staleGums,
   streamLive |-> streamLive, strayTracks |-> strayTracks,
   lateStopped |-> lateStopped, pendingFrames |-> pendingFrames,
   animationFrameRef |-> animationFrameRef, mounted |-> mounted,
   trainer |-> trainer,
   sessionRef |-> sessionRef, isLoading |-> isLoading, uploads |-> uploads,
   objDetectingRef |-> objDetectingRef,
   detectionTimerRef |-> detectionTimerRef, strayTimers |-> strayTimers,
   inflight |-> inflight, detections |-> detections, objError |-> objError]

Become(s) ==
  /\ isActive' = s.isActive
  /\ activeModes' = s.activeModes
  /\ bodyPoseModel' = s.bodyPoseModel
  /\ stream' = s.stream
  /\ modelsLoaded' = s.modelsLoaded
  /\ error' = s.error
  /\ modelVersion' = s.modelVersion
  /\ modelRef' = s.modelRef
  /\ modelsLoadedRef' = s.modelsLoadedRef
  /\ isDetectingRef' = s.isDetectingRef
  /\ activeModesRef' = s.activeModesRef
  /\ bodyPoseModelRef' = s.bodyPoseModelRef
  /\ latestPredictionsRef' = s.latestPredictionsRef
  /\ lastDetectTimeRef' = s.lastDetectTimeRef
  /\ objectDetectionsRef' = s.objectDetectionsRef
  /\ detectionStartTimeout' = s.detectionStartTimeout
  /\ detectionInterval' = s.detectionInterval
  /\ closureModes' = s.closureModes
  /\ loads' = s.loads
  /\ gumPending' = s.gumPending
  /\ srcObject' = s.srcObject
  /\ videoReady' = s.videoReady
  /\ loop' = s.loop
  /\ oldLoop' = s.oldLoop
  /\ painted' = s.painted
  /\ frameAt' = s.frameAt
  /\ storedAt' = s.storedAt
  /\ currentStream' = s.currentStream
  /\ staleGums' = s.staleGums
  /\ streamLive' = s.streamLive
  /\ strayTracks' = s.strayTracks
  /\ lateStopped' = s.lateStopped
  /\ pendingFrames' = s.pendingFrames
  /\ animationFrameRef' = s.animationFrameRef
  /\ mounted' = s.mounted
  /\ trainer' = s.trainer
  /\ sessionRef' = s.sessionRef
  /\ isLoading' = s.isLoading
  /\ uploads' = s.uploads
  /\ objDetectingRef' = s.objDetectingRef
  /\ detectionTimerRef' = s.detectionTimerRef
  /\ strayTimers' = s.strayTimers
  /\ inflight' = s.inflight
  /\ detections' = s.detections
  /\ objError' = s.objError

(* an asynchronous continuation: no user input, the clock does not move *)
Async == UNCHANGED <<now, inputs, clicks, scope, call, ret>>

(* ----- the model runtime's detection loop (detectStart / detectStop) ----- *)
(* "on": the loop runs; "stopping": detectStop was called, the call in     *)
(* flight is not interrupted and may still deliver one result; "off".      *)
LoopStates == {"off", "on", "stopping"}

detectStop(l) == IF l = "on" THEN "stopping" ELSE l

MergeLoop(a, b) ==
  IF a = "on" \/ b = "on" THEN "on"
  ELSE IF a = "stopping" \/ b = "stopping" THEN "stopping" ELSE "off"

(* ----- Camera: stopDetection ----- *)
(* variant that leaves a pending readiness poll alone *)
stopDetection_KeepsInterval(s) ==
  [s EXCEPT
     !.detectionStartTimeout = FALSE,
     !.loop = [c \in Caps |->
                 IF s.modelRef[c] # Null THEN detectStop(s.loop[c]) ELSE s.loop[c]],
     !.isDetectingRef = [c \in Caps |-> FALSE],
     !.latestPredictionsRef = [c \in Caps |-> 0],
     !.lastDetectTimeRef = [c \in TimedCaps |-> 0],
     !.objectDetectionsRef = 0,
     !.painted = [c \in AllCaps |-> FALSE]]

stopDetection(s) ==
  [s EXCEPT
     !.detectionInterval = FALSE,
     !.detectionStartTimeout = FALSE,
     !.loop = [c \in Caps |->
                 IF s.modelRef[c] # Null THEN detectStop(s.loop[c]) ELSE s.loop[c]],
     !.isDetectingRef = [c \in Caps |-> FALSE],
     !.latestPredictionsRef = [c \in Caps |-> 0],
     !.lastDetectTimeRef = [c \in TimedCaps |-> 0],
     !.objectDetectionsRef = 0,
     !.painted = [c \in AllCaps |-> FALSE]]

(* variant that stops the prior loop and arms no debounce timeout *)
startDetection_StopsOnly(s, r) == stopDetection(s)

(* ----- Camera: startDetection, as called by the detection effect; r is ----- *)
(* the render whose closure the effect captured                             *)
startDetection(s, r) ==
  LET t == stopDetection(s)
      hasActiveMode == r.activeModes["face"] \/ r.activeModes["hand"]
                         \/ r.activeModes["body"]
  IN IF ~hasActiveMode \/ ~r.isActive \/ ~r.stream
       THEN t
       ELSE [t EXCEPT !.detectionStartTimeout = TRUE,
                      !.closureModes = [c \in Caps |-> r.activeModes[c]]]

(* ----- Camera: the render loop's frame callbacks ----- *)
(* pendingFrames counts the frame callbacks requested and neither run nor  *)
(* cancelled; animationFrameRef tells whether the id it holds is one of    *)
(* them.                                                                   *)
requestAnimationFrame(s) ==
  [s EXCEPT !.pendingFrames = @ + 1, !.animationFrameRef = TRUE]

cancelAnimationFrame(s) ==
  IF s.animationFrameRef
    THEN [s EXCEPT !.pendingFrames = @ - 1, !.animationFrameRef = FALSE]
    ELSE s

detectionEffect(s, r) ==
  LET t == requestAnimationFrame(s)
  IN IF r.isActive /\ r.stream THEN startDetection(t, r) ELSE stopDetection(t)

detectionCleanup_NoCancel(s) == stopDetection(s)

detectionCleanup(s) == cancelAnimationFrame(stopDetection(s))

(* ----- Camera: the camera-stream effect ----- *)
(* gumPending: the getUserMedia call of the current run of the effect is   *)
(* pending; staleGums: pending calls of runs already cleaned up (isMounted  *)
(* false); currentStream: the closure variable of the current run;         *)
(* streamLive: the tracks of the stream held by the stream state are live; *)
(* strayTracks: live streams nothing refers to; lateStopped: a stream that *)
(* arrived late has been stopped.                                          *)
cameraCleanup(s) ==
  [s EXCEPT !.gumPending = FALSE,
            !.staleGums = IF s.gumPending THEN @ + 1 ELSE @,
            !.streamLive = IF s.currentStream THEN FALSE ELSE @]

startCamera(s, r) ==
  LET t == [s EXCEPT !.currentStream = FALSE]
  IN IF r.isActive /\ ~r.stream
       THEN [t EXCEPT !.gumPending = TRUE]
       ELSE IF ~r.isActive /\ r.stream
         THEN [t EXCEPT !.stream = FALSE, !.srcObject = FALSE,
                        !.videoReady = FALSE, !.streamLive = FALSE]
         ELSE t

lateStream_Kept(s) == [s EXCEPT !.strayTracks = @ + 1]

(* if (!isMounted): the tracks are stopped and nothing is stored *)
lateStream(s) == [s EXCEPT !.lateStopped = TRUE]

(* ----- Camera: loadModels, one suspended invocation per record of loads ----- *)
Invocation(r) ==
  [await |-> "face", am |-> [c \in Caps |-> r.activeModes[c]],
   bpm |-> r.bodyPoseModel]

loadBody(s, inv) ==
  IF ~inv.am["body"] THEN s
  ELSE
    LET needsLoad == s.modelRef["body"] = Null
        needsSwitch == s.modelRef["body"] # Null /\ s.bodyPoseModelRef # inv.bpm
        t == IF needsSwitch
               THEN [s EXCEPT !.loop["body"] = detectStop(@),
                              !.isDetectingRef["body"] = FALSE,
                              !.latestPredictionsRef["body"] = 0]
               ELSE s
    IN IF needsLoad \/ needsSwitch
         THEN [t EXCEPT !.modelsLoaded["body"] = FALSE,
                        !.modelsLoadedRef["body"] = FALSE,
                        !.loads = Append(@, [inv EXCEPT !.await = "body"])]
         ELSE s

loadHand(s, inv) ==
  IF inv.am["hand"] /\ s.modelRef["hand"] = Null
    THEN [s EXCEPT !.modelsLoaded["hand"] = FALSE,
                   !.loads = Append(@, [inv EXCEPT !.await = "hand"])]
    ELSE loadBody(s, inv)

loadFace(s, inv) ==
  IF inv.am["face"] /\ s.modelRef["face"] = Null
    THEN [s EXCEPT !.modelsLoaded["face"] = FALSE,
                   !.loads = Append(@, [inv EXCEPT !.await = "face"])]
    ELSE loadHand(s, inv)

loadModels(s, r) == loadFace(s, Invocation(r))

(* the instance an awaited load resolves to *)
ModelKind(inv) ==
  IF inv.await = "face" THEN "FaceMesh"
  ELSE IF inv.await = "hand" THEN "HandPose" ELSE inv.bpm

(* a resolved load installs a new instance; a loop still running on the    *)
(* replaced instance keeps running there                                   *)
installModel(s, inv) ==
  LET c == inv.await
      t == [s EXCEPT !.modelRef[c] = ModelKind(inv),
                     !.oldLoop[c] = MergeLoop(@, s.loop[c]),
                     !.loop[c] = "off",
                     !.modelsLoaded[c] = TRUE,
                     !.modelsLoadedRef[c] = TRUE]
  IN IF c = "face" THEN loadHand(t, inv)
     ELSE IF c = "hand" THEN loadBody(t, inv)
     ELSE [t EXCEPT !.bodyPoseModelRef = inv.bpm,
                    !.modelVersion = (@ + 1) % 2]

(* the error branch of render replaces <video> and <canvas> *)
renderError(s, e) ==
  [s EXCEPT !.error = e, !.srcObject = FALSE, !.videoReady = FALSE,
            !.painted = [c \in AllCaps |-> FALSE]]

(* ----- ObjectDetector ----- *)
objIsActive(s) == s.isActive /\ s.activeModes["object"]

onDetections(s, r) ==
  [s EXCEPT !.objectDetectionsRef = r, !.storedAt["object"] = now]

objStopDetection(s) ==
  [onDetections(s, 0) EXCEPT
     !.detectionTimerRef = FALSE,
     !.objDetectingRef = FALSE,
     !.detections = 0]

(* window.setTimeout(runDetection, ...): the ref forgets a timer that is   *)
(* still pending                                                           *)
setDetectionTimer(s) ==
  [s EXCEPT !.strayTimers = @ + (IF s.detectionTimerRef THEN 1 ELSE 0),
            !.detectionTimerRef = TRUE]

(* runDetection up to its await *)
runDetection(s) ==
  IF ~s.objDetectingRef \/ ~s.sessionRef \/ s.error # Null THEN s
  ELSE IF ~s.videoReady THEN setDetectionTimer(s)
  ELSE [s EXCEPT !.inflight = @ + 1]

Chains(s) ==
  s.inflight + s.strayTimers + (IF s.detectionTimerRef THEN 1 ELSE 0)

(* ----- a React commit ----- *)
DetDeps(s) == <<s.isActive, s.activeModes["face"], s.activeModes["hand"],
                s.activeModes["body"], s.stream, s.modelVersion,
                s.modelsLoaded>>
LoadDeps(s) == <<s.activeModes["face"], s.activeModes["hand"],
                 s.activeModes["body"], s.bodyPoseModel>>
StateOf(s) == <<s.stream, s.modelsLoaded, s.modelVersion>>

RECURSIVE Commit(_, _)
Commit(p, s) ==
  LET camChanged == s.isActive # p.isActive
      loadChanged == LoadDeps(s) # LoadDeps(p)
      detChanged == DetDeps(s) # DetDeps(p)
      objChanged == objIsActive(s) # objIsActive(p)
      a0 == IF camChanged THEN cameraCleanup(s) ELSE s
      a1 == IF detChanged THEN detectionCleanup(a0) ELSE a0
      a2 == IF objChanged /\ ~objIsActive(s) THEN objStopDetection(a1) ELSE a1
      a3 == [a2 EXCEPT !.activeModesRef = s.activeModes,
                       !.bodyPoseModelRef =
                          IF s.bodyPoseModel # p.bodyPoseModel
                            THEN s.bodyPoseModel ELSE @,
                       !.modelsLoadedRef = s.modelsLoaded]
      a4 == IF camChanged THEN startCamera(a3, s) ELSE a3
      a5 == IF loadChanged THEN loadModels(a4, s) ELSE a4
      a6 == IF detChanged THEN detectionEffect(a5, s) ELSE a5
  IN IF StateOf(a6) # StateOf(s) THEN Commit(s, a6) ELSE a6

Step(s) ==
  LET t == Commit(Cur, s)
  IN /\ Len(t.loads) <= MaxLoads
     /\ Become(t)

(* ----- user input (App) ----- *)
(* a session with the object detector next to a landmark capability gets   *)
(* a smaller share of inputs                                               *)
Mixed(sc) == "object" \in sc.modes /\ sc.modes # {"object"}
Budget(sc) ==
  IF sc.timed THEN MaxTimedInputs
  ELSE IF Mixed(sc) THEN MaxInputs - 1 ELSE MaxInputs
ClickBudget(sc) == IF Mixed(sc) THEN MaxClicks - 2 ELSE MaxClicks

Input ==
  /\ inputs < Budget(scope)
  /\ inputs' = inputs + 1
  /\ UNCHANGED <<now, clicks, scope, call, ret>>

Click ==
  /\ "object" \in scope.modes
  /\ clicks < ClickBudget(scope)
  /\ clicks' = clicks + 1
  /\ UNCHANGED <<now, inputs, scope, call, ret>>

ModesOf(sc) == sc.modes

toggleCamera ==
  /\ Input
  /\ Step(IF isActive
            THEN [Cur EXCEPT !.isActive = FALSE,
                             !.activeModes = [c \in AllCaps |-> FALSE]]
            ELSE [Cur EXCEPT !.isActive = TRUE])

toggleMode(c) ==
  /\ isActive
  /\ c \in ModesOf(scope)
  /\ Input
  /\ Step([Cur EXCEPT !.activeModes[c] = ~@])

setBodyPoseModel(v) ==
  /\ isActive /\ activeModes["body"]
  /\ v # bodyPoseModel
  /\ Input
  /\ Step([Cur EXCEPT !.bodyPoseModel = v])

(* ----- user input (ObjectDetector) ----- *)
handleModelFile ==
  /\ uploads < MaxUploads
  /\ Click
  /\ Become([Cur EXCEPT !.isLoading = TRUE, !.objError = Null,
                        !.uploads = @ + 1])

objStartDetection ==
  /\ sessionRef /\ ~objDetectingRef /\ objIsActive(Cur) /\ ~isLoading
  /\ Chains(Cur) < MaxRuns
  /\ Click
  /\ Become(runDetection([Cur EXCEPT !.objDetectingRef = TRUE]))

objStopClick ==
  /\ objDetectingRef
  /\ Click
  /\ Become(objStopDetection(Cur))

(* ----- asynchronous continuations: Camera ----- *)
GetUserMediaResolve ==
  /\ gumPending
  /\ Async
  /\ Step([Cur EXCEPT !.gumPending = FALSE, !.stream = TRUE,
                      !.currentStream = TRUE, !.streamLive = TRUE,
                      !.srcObject = (error = Null), !.error = Null])

GetUserMediaReject ==
  /\ gumPending
  /\ Async
  /\ Step([renderError(Cur, "camera") EXCEPT !.gumPending = FALSE])

(* getUserMedia of a run already cleaned up settles: a stream is stopped,  *)
(* a rejection is only logged                                              *)
GetUserMediaLate ==
  /\ staleGums > 0
  /\ Async
  /\ \E resolved \in BOOLEAN :
       LET s == [Cur EXCEPT !.staleGums = @ - 1]
       IN Step(IF resolved THEN lateStream(s) ELSE s)

VideoLoaded ==
  /\ stream /\ srcObject /\ error = Null /\ ~videoReady
  /\ Async
  /\ Become([Cur EXCEPT !.videoReady = TRUE])

Without(seq, i) == SubSeq(seq, 1, i - 1) \o SubSeq(seq, i + 1, Len(seq))

LoadResolve(i) ==
  /\ i \in 1..Len(loads)
  /\ Async
  /\ Step(installModel([Cur EXCEPT !.loads = Without(@, i)], loads[i]))

LoadReject(i) ==
  /\ i \in 1..Len(loads)
  /\ Async
  /\ Step([renderError(Cur, "models") EXCEPT !.loads = Without(@, i)])

(* the 100 ms debounce timeout of startDetection fires *)
DebounceFire ==
  /\ detectionStartTimeout
  /\ Async
  /\ Become([Cur EXCEPT !.detectionStartTimeout = FALSE,
                        !.detectionInterval = TRUE])

(* variant that starts every loaded model, whatever the active modes *)
Starts_AnyMode(s, c) ==
  /\ s.modelRef[c] # Null
  /\ s.modelsLoadedRef[c]
  /\ ~s.isDetectingRef[c]

(* a 200 ms readiness poll that finds the video ready *)
Starts(s, c) ==
  /\ s.closureModes[c]
  /\ s.modelRef[c] # Null
  /\ s.modelsLoadedRef[c]
  /\ ~s.isDetectingRef[c]

PollReady ==
  /\ detectionInterval
  /\ videoReady
  /\ Async
  /\ Become([Cur EXCEPT
       !.detectionInterval = FALSE,
       !.isDetectingRef = [c \in Caps |-> @[c] \/ Starts(Cur, c)],
       !.loop = [c \in Caps |-> IF Starts(Cur, c) THEN "on" ELSE @[c]]])

(* the poll finds the video ready and detectStart of c throws: the catch   *)
(* block resets the flag of c, the other capabilities start; the fault     *)
(* counts as one of the session's inputs                                   *)
DetectStartThrows(c) ==
  /\ detectionInterval
  /\ videoReady
  /\ Starts(Cur, c)
  /\ Input
  /\ Become([Cur EXCEPT
       !.detectionInterval = FALSE,
       !.isDetectingRef = [d \in Caps |-> d # c /\ (@[d] \/ Starts(Cur, d))],
       !.loop = [d \in Caps |->
                   IF d # c /\ Starts(Cur, d) THEN "on" ELSE @[d]]])

(* variant that stores a result only into an empty slot *)
onResults_FirstWins(s, c, r) ==
  IF ~s.activeModesRef[c] \/ s.latestPredictionsRef[c] > 0 THEN s
  ELSE [s EXCEPT !.latestPredictionsRef[c] = r]

(* the callback handed to detectStart *)
onResults(s, c, r) ==
  IF ~s.activeModesRef[c] THEN s
  ELSE IF c = "face"
    THEN [s EXCEPT !.latestPredictionsRef[c] = r, !.storedAt[c] = now]
    ELSE IF r > 0
      THEN [s EXCEPT !.latestPredictionsRef[c] = r,
                     !.lastDetectTimeRef[c] = now]
      ELSE s

Callback(c, r) ==
  /\ loop[c] # "off"
  /\ Async
  /\ Become([onResults(Cur, c, r) EXCEPT
       !.loop[c] = IF @ = "stopping" THEN "off" ELSE @])

OldCallback(c, r) ==
  /\ oldLoop[c] # "off"
  /\ Async
  /\ Become([onResults(Cur, c, r) EXCEPT
       !.oldLoop[c] = IF @ = "stopping" THEN "off" ELSE @])

LoopExit(c) ==
  /\ loop[c] = "stopping"
  /\ Async
  /\ Become([Cur EXCEPT !.loop[c] = "off"])

(* ----- asynchronous continuations: ObjectDetector ----- *)
UploadResolve ==
  /\ uploads > 0
  /\ Async
  /\ Become([Cur EXCEPT !.uploads = @ - 1, !.sessionRef = TRUE,
                        !.isLoading = FALSE])

UploadReject ==
  /\ uploads > 0
  /\ Async
  /\ Become([Cur EXCEPT !.uploads = @ - 1, !.sessionRef = FALSE,
                        !.isLoading = FALSE, !.objError = "load"])

(* variant that stops the loop when nothing was decoded *)
RunResolve_StopsOnEmpty(r) ==
  /\ inflight > 0
  /\ Async
  /\ Become(IF r = 0
              THEN objStopDetection([Cur EXCEPT !.inflight = @ - 1])
              ELSE setDetectionTimer(
                     [onDetections(Cur, r) EXCEPT !.inflight = @ - 1,
                                                  !.detections = r]))

(* session.run resolves and runDetection continues after its await *)
RunResolve(r) ==
  /\ inflight > 0
  /\ Async
  /\ Become(setDetectionTimer(
       [onDetections(Cur, r) EXCEPT !.inflight = @ - 1, !.detections = r]))

(* variant whose catch block also stops the landmark detection *)
RunReject_StopsAll ==
  /\ inflight > 0
  /\ Async
  /\ Become(objStopDetection(stopDetection(
       [Cur EXCEPT !.inflight = @ - 1, !.objError = "detect"])))

RunReject ==
  /\ inflight > 0
  /\ Async
  /\ Become(objStopDetection(
       [Cur EXCEPT !.inflight = @ - 1, !.objError = "detect"]))

TimerFire ==
  /\ detectionTimerRef
  /\ Async
  /\ Become(runDetection([Cur EXCEPT !.detectionTimerRef = FALSE]))

StrayTimerFire ==
  /\ strayTimers > 0
  /\ Async
  /\ Become(runDetection([Cur EXCEPT !.strayTimers = @ - 1]))

(* ----- Camera: one frame of renderLoop ----- *)
Age(s, c) == now - s.lastDetectTimeRef[c]

(* variant without the staleness test *)
Paints_NoStaleness(s, c) ==
  /\ s.error = Null
  /\ s.activeModesRef[c]
  /\ IF c = "object" THEN s.objectDetectionsRef > 0
     ELSE s.latestPredictionsRef[c] > 0

(* variant that ignores the activation state *)
Paints_AnyMode(s, c) ==
  /\ s.error = Null
  /\ IF c = "object" THEN s.objectDetectionsRef > 0
     ELSE /\ s.latestPredictionsRef[c] > 0
          /\ c \in TimedCaps => Age(s, c) < StaleMs

Paints(s, c) ==
  /\ s.error = Null
  /\ s.activeModesRef[c]
  /\ IF c = "object" THEN s.objectDetectionsRef > 0
     ELSE /\ s.latestPredictionsRef[c] > 0
          /\ c \in TimedCaps => Age(s, c) < StaleMs

(* a pending frame callback runs: without a canvas it only requests the    *)
(* next frame, else it paints and requests the next frame                  *)
renderLoop ==
  /\ pendingFrames > 0
  /\ Async
  /\ Become(IF mounted
              THEN [Cur EXCEPT !.painted = [c \in AllCaps |-> Paints(Cur, c)],
                               !.frameAt = now,
                               !.animationFrameRef = TRUE]
              ELSE [Cur EXCEPT !.animationFrameRef = TRUE])

(* the Camera component unmounts: the cleanups of its effects run *)
Unmount ==
  /\ mounted
  /\ Async
  /\ Become([detectionCleanup(cameraCleanup(Cur)) EXCEPT !.mounted = FALSE])

Tick ==
  /\ now < MaxTime * TickMs
  /\ now' = now + TickMs
  /\ UNCHANGED <<compVars, inputs, clicks, scope, call, ret>>

InitComponents ==
  /\ isActive = FALSE
  /\ activeModes = [c \in AllCaps |-> FALSE]
  /\ bodyPoseModel = "MoveNet"
  /\ stream = FALSE
  /\ modelsLoaded = [c \in Caps |-> FALSE]
  /\ error = Null
  /\ modelVersion = 0
  /\ modelRef = [c \in Caps |-> Null]
  /\ modelsLoadedRef = [c \in Caps |-> FALSE]
  /\ isDetectingRef = [c \in Caps |-> FALSE]
  /\ activeModesRef = [c \in AllCaps |-> FALSE]
  /\ bodyPoseModelRef = "MoveNet"
  /\ latestPredictionsRef = [c \in Caps |-> 0]
  /\ lastDetectTimeRef = [c \in TimedCaps |-> 0]
  /\ objectDetectionsRef = 0
  /\ detectionStartTimeout = FALSE
  /\ detectionInterval = FALSE
  /\ closureModes = [c \in Caps |-> FALSE]
  /\ loads = <<>>
  /\ gumPending = FALSE
  /\ srcObject = FALSE
  /\ videoReady = FALSE
  /\ loop = [c \in Caps |-> "off"]
  /\ oldLoop = [c \in Caps |-> "off"]
  /\ painted = [c \in AllCaps |-> FALSE]
  /\ frameAt = 0
  /\ storedAt = [c \in {"face", "object"} |-> 0]
  /\ currentStream = FALSE
  /\ staleGums = 0
  /\ streamLive = FALSE
  /\ strayTracks = 0
  /\ lateStopped = FALSE
  /\ pendingFrames = 1
  /\ animationFrameRef = TRUE
  /\ mounted = TRUE
  /\ trainer = [isTrained |-> FALSE, network |-> 0, timerId |-> 0,
                inFlight |-> 0, late |-> 0, classificationResult |-> 0]
  /\ sessionRef = FALSE
  /\ isLoading = FALSE
  /\ uploads = 0
  /\ objDetectingRef = FALSE
  /\ detectionTimerRef = FALSE
  /\ strayTimers = 0
  /\ inflight = 0
  /\ detections = 0
  /\ objError = Null
  /\ now = 0
  /\ inputs = 0
  /\ clicks = 0

NoCall == [fn |-> "none"]

(* ===================== pure functions ===================== *)
(* ----- renderLoop: opacity of a hand / body overlay of a given age ----- *)
(* alpha is in units of 1 / FadeSpanMs                                      *)
(* variant that fades from the first millisecond *)
overlayAlpha_FadesAtOnce(age) ==
  [drawn |-> age < StaleMs,
   alpha |-> FadeSpanMs - age]

overlayAlpha(age) ==
  [drawn |-> age < StaleMs,
   alpha |-> IF age > FadeStartMs
               THEN FadeSpanMs - (age - FadeStartMs)
               ELSE FadeSpanMs]

AlphaCalls == {[fn |-> "overlayAlpha", age |-> a] : a \in 0..MaxAgeMs}

(* the opacity of a result and of the same result one millisecond later *)
CallOverlayAlpha ==
  /\ call.fn = "overlayAlpha" /\ ret = NoCall
  /\ ret' = [fn |-> "overlayAlpha", at |-> overlayAlpha(call.age),
             next |-> overlayAlpha(call.age + 1)]
  /\ UNCHANGED <<compVars, now, inputs, clicks, scope, call>>

(* ----- ObjectDetector: calculateIOU ----- *)
(* boxes are <<x1, y1, x2, y2>>; the quotient is kept as num / den          *)
Max(a, b) == IF a >= b THEN a ELSE b
Min(a, b) == IF a <= b THEN a ELSE b

calculateIOU(a, b) ==
  LET interX1 == Max(a[1], b[1])
      interY1 == Max(a[2], b[2])
      interX2 == Min(a[3], b[3])
      interY2 == Min(a[4], b[4])
      interArea == Max(0, interX2 - interX1) * Max(0, interY2 - interY1)
      boxAArea == Max(0, a[3] - a[1]) * Max(0, a[4] - a[2])
      boxBArea == Max(0, b[3] - b[1]) * Max(0, b[4] - b[2])
      union == boxAArea + boxBArea - interArea
  IN IF union <= 0 THEN [num |-> 0, den |-> 1]
     ELSE [num |-> interArea, den |-> union]

IouBelow_Inclusive(iou, threshold) ==
  iou.num * Hundredths <= threshold * iou.den

(* iou < threshold, the threshold in hundredths *)
IouBelow(iou, threshold) == iou.num * Hundredths < threshold * iou.den

(* ----- ObjectDetector: nonMaxSuppression ----- *)
(* indices by descending score; Array.prototype.sort is stable *)
RECURSIVE SortByScore(_, _)
SortByScore(scores, todo) ==
  IF todo = {} THEN <<>>
  ELSE LET best == CHOOSE i \in todo :
                     \A j \in todo : \/ scores[i] > scores[j]
                                     \/ scores[i] = scores[j] /\ i <= j
       IN <<best>> \o SortByScore(scores, todo \ {best})

(* the while loop: take the best, drop what overlaps it, repeat *)
RECURSIVE Suppress(_, _, _)
Suppress(boxes, sorted, threshold) ==
  IF sorted = <<>> THEN <<>>
  ELSE LET current == Head(sorted)
           Keeps(idx) == IouBelow(calculateIOU(boxes[current], boxes[idx]),
                                  threshold)
       IN <<current>> \o
          Suppress(boxes, SelectSeq(Tail(sorted), Keeps), threshold)

(* variant that ranks the candidates and removes none *)
nonMaxSuppression_KeepsAll(boxes, scores, threshold) ==
  SortByScore(scores, DOMAIN scores)

nonMaxSuppression(boxes, scores, threshold) ==
  Suppress(boxes, SortByScore(scores, DOMAIN scores), threshold)

(* candidates <<box, score>>: overlapping, chained, disjoint and empty *)
NmsCandidates ==
  {<<(<<0, 0, 100, 100>>), 90>>, <<(<<10, 10, 100, 100>>), 80>>,
   <<(<<30, 0, 130, 100>>), 90>>, <<(<<60, 0, 160, 100>>), 80>>,
   <<(<<200, 0, 300, 100>>), 80>>, <<(<<50, 50, 50, 50>>), 80>>}
NmsThresholds == {0, 25, 45, 100}

SeqsUpTo(S, n) == UNION {[1..k -> S] : k \in 0..n}

NmsCalls ==
  {[fn |-> "nonMaxSuppression", boxes |-> [i \in DOMAIN c |-> c[i][1]],
    scores |-> [i \in DOMAIN c |-> c[i][2]], threshold |-> t] :
     c \in SeqsUpTo(NmsCandidates, MaxBoxes), t \in NmsThresholds}

CallNonMaxSuppression ==
  /\ call.fn = "nonMaxSuppression" /\ ret = NoCall
  /\ ret' = [fn |-> "nonMaxSuppression",
             selected |-> nonMaxSuppression(call.boxes, call.scores,
                                            call.threshold)]
  /\ UNCHANGED <<compVars, now, inputs, clicks, scope, call>>

(* ----- ObjectDetector: preprocessImage (letterbox metadata) ----- *)
(* scale is kept as the quotient num / den *)
preprocessMeta(video, inputSize, useLetterbox) ==
  LET vw == video.width
      vh == video.height
      iw == inputSize.width
      ih == inputSize.height
      byWidth == iw * vh <= ih * vw      \* iw / vw <= ih / vh
      n == IF byWidth THEN iw ELSE ih
      d == IF byWidth THEN vw ELSE vh
      newWidth == (2 * vw * n + d) \div (2 * d)     \* Math.round
      newHeight == (2 * vh * n + d) \div (2 * d)
  IN IF useLetterbox /\ vw > 0 /\ vh > 0
       THEN [scale |-> [num |-> n, den |-> d],
             padX |-> (iw - newWidth) \div 2,
             padY |-> (ih - newHeight) \div 2,
             inputWidth |-> iw, inputHeight |-> ih,
             videoWidth |-> vw, videoHeight |-> vh]
       ELSE [scale |-> [num |-> iw, den |-> IF vw # 0 THEN vw ELSE iw],
             padX |-> 0, padY |-> 0,
             inputWidth |-> iw, inputHeight |-> ih,
             videoWidth |-> IF vw # 0 THEN vw ELSE iw,
             videoHeight |-> IF vh # 0 THEN vh ELSE ih]

(* ----- ObjectDetector: parseYoloOutput ----- *)
(* Tensor coordinates are whole pixels; scores and thresholds are in       *)
(* hundredths. A returned box is a set of numerators over the per-axis     *)
(* denominators in "den" (x and width over den.x, y and height over        *)
(* den.y); a returned confidence is in ten-thousandths.                    *)
RECURSIVE Flatten(_)
Flatten(seqs) ==
  IF seqs = <<>> THEN <<>> ELSE Head(seqs) \o Flatten(Tail(seqs))

Clamp(v, hi) == Max(0, Min(hi, v))

(* model space to video space, as numerator and denominator; "half" is 1   *)
(* for whole-pixel inputs and 2 for inputs in half pixels                  *)
(* variant that forgets the padding *)
ToVideo_NoPad(v, pad, videoSize, inputSize, meta, useLetterbox, half) ==
  IF useLetterbox
    THEN [num |-> v * meta.scale.den, den |-> half * meta.scale.num]
    ELSE [num |-> v * videoSize, den |-> half * inputSize]

ToVideo(v, pad, videoSize, inputSize, meta, useLetterbox, half) ==
  IF useLetterbox
    THEN [num |-> (v - half * pad) * meta.scale.den,
          den |-> half * meta.scale.num]
    ELSE [num |-> v * videoSize, den |-> half * inputSize]

(* rows of [x1, y1, x2, y2, confidence, class_id]: no suppression *)
parsePreFiltered(c, meta) ==
  LET numDetections == c.dims[2]
      Row(i) ==
        LET offset == i * 6
            confidence == c.data[offset + 5]
            classId == c.data[offset + 6]
            X1 == ToVideo(c.data[offset + 1], meta.padX, meta.videoWidth,
                          meta.inputWidth, meta, c.useLetterbox, 1)
            Y1 == ToVideo(c.data[offset + 2], meta.padY, meta.videoHeight,
                          meta.inputHeight, meta, c.useLetterbox, 1)
            X2 == ToVideo(c.data[offset + 3], meta.padX, meta.videoWidth,
                          meta.inputWidth, meta, c.useLetterbox, 1)
            Y2 == ToVideo(c.data[offset + 4], meta.padY, meta.videoHeight,
                          meta.inputHeight, meta, c.useLetterbox, 1)
            videoX1 == Clamp(X1.num, meta.videoWidth * X1.den)
            videoY1 == Clamp(Y1.num, meta.videoHeight * Y1.den)
            videoX2 == Clamp(X2.num, meta.videoWidth * X2.den)
            videoY2 == Clamp(Y2.num, meta.videoHeight * Y2.den)
            width == videoX2 - videoX1
            height == videoY2 - videoY1
        IN IF confidence < c.confidenceThreshold THEN <<>>
           ELSE IF classId < 0 \/ classId >= Len(c.labels) THEN <<>>
           ELSE IF width > 0 /\ height > 0
             THEN <<[bbox |-> [x |-> videoX1, y |-> videoY1,
                               width |-> width, height |-> height],
                     den |-> [x |-> X1.den, y |-> Y1.den],
                     label |-> c.labels[classId + 1],
                     classId |-> classId,
                     confidence |-> confidence * Hundredths]>>
             ELSE <<>>
  IN Flatten([k \in 1..numDetections |-> Row(k - 1)])

(* layout inference: [numBoxes, numAttrs, layout], or "unrecognized" *)
inferLayout(dims, dataLength) ==
  LET byDims ==
        IF Len(dims) = 3
          THEN IF dims[2] > dims[3]
                 THEN [numBoxes |-> dims[3], numAttrs |-> dims[2],
                       layout |-> "CHANNELS_FIRST"]
                 ELSE [numBoxes |-> dims[2], numAttrs |-> dims[3],
                       layout |-> "CHANNELS_LAST"]
        ELSE IF Len(dims) = 2
          THEN [numBoxes |-> dims[1], numAttrs |-> dims[2],
                layout |-> "CHANNELS_LAST"]
        ELSE [numBoxes |-> 0, numAttrs |-> 0, layout |-> "CHANNELS_LAST"]
      Guess(attrs) == [numBoxes |-> dataLength \div attrs, numAttrs |-> attrs,
                       layout |-> "CHANNELS_LAST"]
  IN IF byDims.numBoxes # 0 /\ byDims.numAttrs # 0 THEN byDims
     ELSE IF dataLength % 85 = 0 THEN Guess(85)
     ELSE IF dataLength % 84 = 0 THEN Guess(84)
     ELSE IF dataLength % 6 = 0 THEN Guess(6)
     ELSE [numBoxes |-> 0, numAttrs |-> 0, layout |-> "unrecognized"]

MaxOf(S) == CHOOSE m \in S : \A x \in S : m >= x

(* variant that gives every unknown class the same label *)
labelOf_Unknown(labels, classId) ==
  IF classId + 1 \in DOMAIN labels THEN labels[classId + 1]
  ELSE <<"class_", 0>>

(* labels[classId] ?? `class_${classId}` *)
labelOf(labels, classId) ==
  IF classId + 1 \in DOMAIN labels THEN labels[classId + 1]
  ELSE <<"class_", classId>>

(* the selected candidates, remapped to the frame and clamped; candidate   *)
(* corners are in half pixels                                              *)
emitDetections(c, meta, cands, normalized) ==
  LET scaleX == IF normalized THEN c.inputSize.width ELSE 1
      scaleY == IF normalized THEN c.inputSize.height ELSE 1
      boxes == [k \in DOMAIN cands |-> cands[k].box]
      scores == [k \in DOMAIN cands |-> cands[k].score]
      selected == nonMaxSuppression(boxes, scores, c.iouThreshold)
      Emit(index) ==
        LET b == boxes[index]
            X1 == ToVideo(b[1] * scaleX, meta.padX, meta.videoWidth,
                          meta.inputWidth, meta, c.useLetterbox, 2)
            Y1 == ToVideo(b[2] * scaleY, meta.padY, meta.videoHeight,
                          meta.inputHeight, meta, c.useLetterbox, 2)
            X2 == ToVideo(b[3] * scaleX, meta.padX, meta.videoWidth,
                          meta.inputWidth, meta, c.useLetterbox, 2)
            Y2 == ToVideo(b[4] * scaleY, meta.padY, meta.videoHeight,
                          meta.inputHeight, meta, c.useLetterbox, 2)
            classId == cands[index].classId
            x == Clamp(X1.num, meta.videoWidth * X1.den)
            y == Clamp(Y1.num, meta.videoHeight * Y1.den)
        IN [bbox |-> [x |-> x, y |-> y,
                      width |-> Max(0, Min(meta.videoWidth * X2.den, X2.num) - x),
                      height |-> Max(0, Min(meta.videoHeight * Y2.den, Y2.num) - y)],
            den |-> [x |-> X1.den, y |-> Y1.den],
            label |-> labelOf(c.labels, classId),
            classId |-> classId,
            confidence |-> scores[index]]
  IN [k \in DOMAIN selected |-> Emit(selected[k])]

(* variant that assumes objectness only when its class count fits *)
assumesObjectness_OnlyOnMatch(numAttrs, numLabels) ==
  numAttrs - 5 > 0 /\ numAttrs - 5 = numLabels

(* useObjectness *)
assumesObjectness(numAttrs, numLabels) ==
  LET possibleClassesNoObj == numAttrs - 4
      possibleClassesWithObj == numAttrs - 5
  IN /\ possibleClassesWithObj > 0
     /\ \/ possibleClassesWithObj = numLabels
        \/ possibleClassesNoObj # numLabels

(* variant that leaves the objectness out of the confidence *)
confidenceOf_ScoreOnly(bestScore, objectness) == bestScore * Hundredths

(* bestScore * objectness, both in hundredths *)
confidenceOf(bestScore, objectness) == bestScore * objectness

parseGeneric(c, meta) ==
  LET shape == inferLayout(c.dims, Len(c.data))
      numBoxes == shape.numBoxes
      numAttrs == shape.numAttrs
      possibleClassesNoObj == numAttrs - 4
      possibleClassesWithObj == numAttrs - 5
      useObjectness == assumesObjectness(numAttrs, Len(c.labels))
      classStart == IF useObjectness THEN 5 ELSE 4
      numClasses == IF useObjectness THEN possibleClassesWithObj
                    ELSE possibleClassesNoObj
      getValue(i, attrIndex) ==
        IF shape.layout = "CHANNELS_FIRST"
          THEN c.data[attrIndex * numBoxes + i + 1]
          ELSE c.data[i * numAttrs + attrIndex + 1]
      maxCoord == MaxOf({0} \cup {getValue(i, a) : i \in 0..(numBoxes - 1),
                                                  a \in 0..3})
      Cand(i) ==
        LET v0 == getValue(i, 0)
            v1 == getValue(i, 1)
            v2 == getValue(i, 2)
            v3 == getValue(i, 3)
            classScores == {getValue(i, classStart + k) : k \in 0..(numClasses - 1)}
            bestScore == MaxOf({0} \cup classScores)
            bestClass ==
              IF bestScore = 0 THEN 0
              ELSE CHOOSE k \in 0..(numClasses - 1) :
                     /\ getValue(i, classStart + k) = bestScore
                     /\ \A j \in 0..(k - 1) :
                          getValue(i, classStart + j) < bestScore
            objectness == IF useObjectness THEN getValue(i, 4) ELSE Hundredths
            confidence == confidenceOf(bestScore, objectness)
            isLikelyXyxy == numAttrs = 6 /\ v2 > v0 /\ v3 > v1
        IN IF confidence < c.confidenceThreshold * Hundredths THEN <<>>
           ELSE <<[box |-> IF isLikelyXyxy
                             THEN <<2 * v0, 2 * v1, 2 * v2, 2 * v3>>
                             ELSE <<2 * v0 - v2, 2 * v1 - v3,
                                    2 * v0 + v2, 2 * v1 + v3>>,
                   score |-> confidence,
                   classId |-> bestClass]>>
      cands == Flatten([k \in 1..numBoxes |-> Cand(k - 1)])
  IN IF shape.layout = "unrecognized" THEN <<>>
     ELSE IF cands = <<>> THEN <<>>
     ELSE emitDetections(c, meta, cands, 2 * maxCoord <= 3)

(* variant without the branch for already suppressed rows *)
parseYoloOutput_AlwaysGeneric(c) ==
  parseGeneric(c, preprocessMeta(c.video, c.inputSize, c.useLetterbox))

parseYoloOutput(c) ==
  LET meta == preprocessMeta(c.video, c.inputSize, c.useLetterbox)
  IN IF Len(c.dims) = 3 /\ c.dims[3] = 6
       THEN parsePreFiltered(c, meta)
       ELSE parseGeneric(c, meta)

(* ----- decoder inputs ----- *)
(* rows [x1, y1, x2, y2, confidence, class_id] of an already suppressed output *)
PreRows ==
  {<<50, 50, 150, 150, 90, 2>>, <<0, 0, 100, 100, 90, 0>>,
   <<10, 10, 100, 100, 80, 0>>, <<50, 50, 150, 150, 90, 3>>,
   <<150, 150, 50, 50, 90, 1>>, <<50, 50, 150, 150, 40, 1>>,
   <<100, 100, 300, 300, 90, 1>>, <<50, 10, 150, 40, 90, 1>>}
(* rows [cx, cy, w, h, score] of a one-class output *)
OneClassRows ==
  {<<0, 0, 100, 100, 90>>, <<10, 10, 100, 100, 80>>,
   <<300, 300, 20, 20, 90>>, <<100, 100, 0, 0, 90>>,
   <<100, 100, 50, 50, 10>>, <<1, 1, 1, 1, 90>>}
(* rows of six attributes: [.., objectness, score] or [.., score, score] *)
SixRows ==
  {<<0, 0, 100, 100, 90, 0>>, <<10, 10, 100, 100, 80, 0>>,
   <<100, 100, 50, 50, 90, 80>>, <<20, 20, 120, 120, 30, 90>>}
(* rows [cx, cy, w, h, objectness, score0, score1] *)
SevenRows ==
  {<<100, 100, 50, 50, 90, 10, 80>>, <<100, 100, 50, 50, 50, 90, 0>>}

(* six boxes of five attributes, more boxes than attributes *)
WideRows ==
  <<<<20, 20, 20, 20, 90>>, <<60, 20, 20, 20, 80>>, <<100, 20, 20, 20, 90>>,
    <<20, 80, 20, 20, 70>>, <<60, 80, 20, 20, 90>>, <<100, 80, 20, 20, 60>>>>

Rows(sq) == Flatten(sq)
Columns(sq, numAttrs) ==
  [k \in 1..(numAttrs * Len(sq)) |->
     sq[((k - 1) % Len(sq)) + 1][((k - 1) \div Len(sq)) + 1]]

Tensors ==
  {[dims |-> <<1, Len(sq), 6>>, data |-> Rows(sq)] :
     sq \in SeqsUpTo(PreRows, MaxRows)}
  \cup {[dims |-> <<1, Len(sq), 5>>, data |-> Rows(sq)] :
     sq \in SeqsUpTo(OneClassRows, MaxRows)}
  \cup {[dims |-> <<1, 5, Len(sq)>>, data |-> Columns(sq, 5)] :
     sq \in SeqsUpTo(OneClassRows, MaxRows) \ {<<>>}}
  \cup {[dims |-> <<Len(sq), 6>>, data |-> Rows(sq)] :
     sq \in SeqsUpTo(SixRows, MaxRows)}
  \cup {[dims |-> <<1, Len(sq), 7>>, data |-> Rows(sq)] :
     sq \in SeqsUpTo(SevenRows, MaxRows)}
  \cup {[dims |-> <<7>>, data |-> <<100, 100, 50, 50, 90, 10, 80>>],
        [dims |-> <<1, 1, 1, 5>>, data |-> <<0, 0, 100, 100, 90>>],
        [dims |-> <<6>>, data |-> <<0, 0, 100, 100, 0, 90>>],
        [dims |-> <<1, 5, 6>>, data |-> Columns(WideRows, 5)]}

LabelLists == {<<"a", "b", "car">>, <<"a", "b">>, <<"a">>}
ConfidenceThresholds == {0, 50}
IouThresholds == {45}
InputSizes == {[width |-> 200, height |-> 200]}
VideoSizes == {[width |-> 200, height |-> 200], [width |-> 400, height |-> 200]}

ParseCalls ==
  {[fn |-> "parseYoloOutput", dims |-> t.dims, data |-> t.data,
    labels |-> l, confidenceThreshold |-> ct, iouThreshold |-> it,
    useLetterbox |-> lb, inputSize |-> sz, video |-> v] :
     t \in Tensors, l \in LabelLists, ct \in ConfidenceThresholds,
     it \in IouThresholds, lb \in BOOLEAN, sz \in InputSizes,
     v \in VideoSizes}

CallParseYoloOutput ==
  /\ call.fn = "parseYoloOutput" /\ ret = NoCall
  /\ ret' = [fn |-> "parseYoloOutput", detections |-> parseYoloOutput(call)]
  /\ UNCHANGED <<compVars, now, inputs, clicks, scope, call>>

(* ----- handUtils: getNormalizedHandVector ----- *)
(* A keypoint is [x, y, finite]; coordinates are whole pixels. A vector is *)
(* [null, nums, den, root]: component k has the value                     *)
(* nums[k] / (den * sqrt(root)), so that hypot, atan2, cos and sin are     *)
(* kept exact; null marks a returned null.                                 *)
SqNorm(p) == p.x * p.x + p.y * p.y
ZeroVector(size) == [null |-> FALSE, nums |-> [k \in 1..size |-> 0],
                     den |-> 1, root |-> 1]
(* about the axis r: x * cos(-angle) - y * sin(-angle) and                 *)
(* x * sin(-angle) + y * cos(-angle), times |r|, angle = atan2(r.y, r.x)   *)
RotateTo(p, r) == [x |-> p.x * r.x + p.y * r.y, y |-> p.y * r.x - p.x * r.y]
(* vector.push(p.x, p.y) for the points from index "from" on *)
FlattenPoints(pts, from) ==
  [k \in 1..(2 * (Len(pts) - from + 1)) |->
     IF k % 2 = 1 THEN pts[from + (k - 1) \div 2].x
     ELSE pts[from + (k - 1) \div 2].y]

(* variant that keeps the wrist in the vector *)
getNormalizedHandVector_KeepsWrist(hand) ==
  LET keypoints == hand.keypoints
      wrist == keypoints[1]
      translated == [i \in 1..Len(keypoints) |->
                       IF keypoints[i].finite
                         THEN [x |-> keypoints[i].x - wrist.x,
                               y |-> keypoints[i].y - wrist.y]
                         ELSE [x |-> 0, y |-> 0]]
  IN IF Len(keypoints) # 21 \/ ~wrist.finite THEN ZeroVector(40)
     ELSE [null |-> FALSE, nums |-> FlattenPoints(translated, 1),
           den |-> 1, root |-> 1]

getNormalizedHandVector(hand) ==
  LET keypoints == hand.keypoints
      NUM_POINTS == 21
      VECTOR_SIZE == (NUM_POINTS - 1) * 2
      wrist == keypoints[1]
      (* safeNumber(kp.x - wrist.x) *)
      translated == [i \in 1..Len(keypoints) |->
                       IF keypoints[i].finite
                         THEN [x |-> keypoints[i].x - wrist.x,
                               y |-> keypoints[i].y - wrist.y]
                         ELSE [x |-> 0, y |-> 0]]
      maxDist2 == MaxOf({SqNorm(translated[i]) : i \in 1..Len(keypoints)})
      middleMCP == translated[10]
      turned == SqNorm(middleMCP) # 0        \* atan2(0, 0) is 0
      rotated == [i \in 1..Len(keypoints) |->
                    IF turned THEN RotateTo(translated[i], middleMCP)
                    ELSE translated[i]]
  IN IF Len(keypoints) # NUM_POINTS THEN ZeroVector(VECTOR_SIZE)
     ELSE IF ~wrist.finite THEN ZeroVector(VECTOR_SIZE)
     ELSE IF maxDist2 = 0 THEN ZeroVector(VECTOR_SIZE)
     ELSE [null |-> FALSE,
           nums |-> FlattenPoints(rotated, 2),
           den |-> 1,
           root |-> IF turned THEN SqNorm(middleMCP) * maxDist2
                    ELSE maxDist2]

(* ----- bodyUtils: getNormalizedBodyVector ----- *)
(* A keypoint is [x, y, confidence]. The hip centre is a half pixel, so    *)
(* the translated points are kept doubled; the factor cancels against the  *)
(* scale.                                                                  *)
NullVector == [null |-> TRUE, nums |-> <<>>, den |-> 1, root |-> 1]
Abs(v) == IF v < 0 THEN -v ELSE v
CONF_TH == 0

(* confidence filter: a gated point is set to (0, 0) *)
gatePoints(keypoints) ==
  [i \in 1..17 |->
     [x |-> IF keypoints[i].confidence > CONF_TH THEN keypoints[i].x ELSE 0,
      y |-> IF keypoints[i].confidence > CONF_TH THEN keypoints[i].y ELSE 0,
      c |-> keypoints[i].confidence]]

hipsMissing(lh, rh) == lh.c <= CONF_TH /\ rh.c <= CONF_TH

getNormalizedBodyVector(body) ==
  LET keypoints == body.keypoints
      NUM_POINTS == 17
      pts == gatePoints(keypoints)
      lh == pts[12]
      rh == pts[13]
      (* twice (p - (cx, cy)) *)
      translated == [i \in 1..NUM_POINTS |->
                       [x |-> 2 * pts[i].x - (lh.x + rh.x),
                        y |-> 2 * pts[i].y - (lh.y + rh.y),
                        c |-> pts[i].c]]
      ls == translated[6]
      rs == translated[7]
      shoulders == [x |-> rs.x - ls.x, y |-> rs.y - ls.y]
      byShoulders == SqNorm(shoulders) # 0       \* scale >= 1e-3
      height == MaxOf({Abs(translated[i].y) : i \in 1..NUM_POINTS})
      turned == ls.c > CONF_TH /\ rs.c > CONF_TH /\ byShoulders
      rotated == [i \in 1..NUM_POINTS |->
                    IF turned THEN RotateTo(translated[i], shoulders)
                    ELSE translated[i]]
      nums == FlattenPoints(rotated, 1)
  IN IF Len(keypoints) < NUM_POINTS THEN NullVector
     ELSE IF hipsMissing(lh, rh) THEN NullVector
     ELSE IF ~byShoulders /\ height = 0 THEN NullVector
     ELSE IF \A k \in DOMAIN nums : nums[k] = 0 THEN NullVector   \* energy
     ELSE [null |-> FALSE,
           nums |-> nums,
           den |-> IF turned THEN SqNorm(shoulders)
                   ELSE IF byShoulders THEN 1 ELSE height,
           root |-> IF ~turned /\ byShoulders THEN SqNorm(shoulders) ELSE 1]

(* ----- landmark sets handed to the normalizers ----- *)
(* the same offset added to every landmark, flags and confidences kept *)
Shifted(keypoints, offset) ==
  [i \in 1..Len(keypoints) |->
     [keypoints[i] EXCEPT !.x = @ + offset[1], !.y = @ + offset[2]]]
Offsets == {<<3, 1>>, <<0, 2>>}
SameVector(a, b) ==
  /\ a.null = b.null
  /\ Len(a.nums) = Len(b.nums)
  /\ \A k \in DOMAIN a.nums :
       IF a.root = b.root
         THEN a.nums[k] * b.den = b.nums[k] * a.den
         ELSE /\ (a.nums[k] > 0) = (b.nums[k] > 0)
              /\ (a.nums[k] < 0) = (b.nums[k] < 0)
              /\ (a.nums[k] * b.den) * (a.nums[k] * b.den) * b.root
                   = (b.nums[k] * a.den) * (b.nums[k] * a.den) * a.root

HandPoses == {"open", "mcpOnWrist", "closed"}
HandCounts == {0, 20, 21}
HandKeypoints(pose, count, wristFinite, tipFinite) ==
  [i \in 1..count |->
     [x |-> IF pose = "closed" \/ (pose = "mcpOnWrist" /\ i = 10) THEN 2
            ELSE 2 + ((i - 1) % 5),
      y |-> IF pose = "closed" \/ (pose = "mcpOnWrist" /\ i = 10) THEN 1
            ELSE 1 + ((i - 1) \div 5),
      finite |-> IF i = 1 THEN wristFinite
                 ELSE IF i = 21 THEN tipFinite ELSE TRUE]]
HandCalls ==
  {[fn |-> "getNormalizedHandVector",
    keypoints |-> HandKeypoints(p, n, wf, tf), offset |-> o] :
     p \in HandPoses, n \in HandCounts, wf \in BOOLEAN, tf \in BOOLEAN,
     o \in Offsets}

CallNormalizeHand ==
  /\ call.fn = "getNormalizedHandVector" /\ ret = NoCall
  /\ ret' = [fn |-> "getNormalizedHandVector",
             vector |-> getNormalizedHandVector([keypoints |-> call.keypoints]),
             shifted |-> getNormalizedHandVector(
                           [keypoints |-> Shifted(call.keypoints, call.offset)])]
  /\ UNCHANGED <<compVars, now, inputs, clicks, scope, call>>

(* 1 nose, 6 and 7 the shoulders, 12 and 13 the hips (ml5 order, from 1) *)
BodyPoses == {"upright", "leaning", "narrow", "point"}
BodyCounts == {16, 17}
GatedSets == {{}, {1}, {6}, {6, 7}, {12}, {13}, {12, 13}}
BodyPoint(pose, i) ==
  IF pose = "point" THEN <<2, 2>>
  ELSE IF i = 6 THEN (IF pose = "narrow" THEN <<2, 1>> ELSE <<1, 1>>)
  ELSE IF i = 7 THEN (IF pose = "narrow" THEN <<2, 1>>
                      ELSE IF pose = "leaning" THEN <<3, 2>> ELSE <<3, 1>>)
  ELSE IF i = 12 THEN <<1, 3>>
  ELSE IF i = 13 THEN <<3, 3>>
  ELSE <<1 + (i % 3), i % 5>>
BodyKeypoints(pose, count, gated) ==
  [i \in 1..count |->
     [x |-> BodyPoint(pose, i)[1], y |-> BodyPoint(pose, i)[2],
      confidence |-> IF i \in gated THEN 0 ELSE 90]]
BodyCalls ==
  {[fn |-> "getNormalizedBodyVector",
    keypoints |-> BodyKeypoints(p, n, g), offset |-> o] :
     p \in BodyPoses, n \in BodyCounts, g \in GatedSets, o \in Offsets}

CallNormalizeBody ==
  /\ call.fn = "getNormalizedBodyVector" /\ ret = NoCall
  /\ ret' = [fn |-> "getNormalizedBodyVector",
             vector |-> getNormalizedBodyVector([keypoints |-> call.keypoints]),
             shifted |-> getNormalizedBodyVector(
                           [keypoints |-> Shifted(call.keypoints, call.offset)])]
  /\ UNCHANGED <<compVars, now, inputs, clicks, scope, call>>

(* ----- the recorded letterbox transform and its inverse ----- *)
(* a frame coordinate times the recorded scale plus the recorded pad, in   *)
(* units of 1 / meta.scale.den of a model-input pixel                      *)
letterboxForward(x, pad, meta) == x * meta.scale.num + pad * meta.scale.den

RoundTripVideos ==
  {[width |-> 200, height |-> 200], [width |-> 400, height |-> 200],
   [width |-> 300, height |-> 200], [width |-> 200, height |-> 300]}
RoundTripInputs ==
  {[width |-> 200, height |-> 200], [width |-> 320, height |-> 256]}
RoundTripSpans == {<<0, 37>>, <<0, 200>>, <<37, 150>>, <<150, 200>>}
RoundTripCalls ==
  {[fn |-> "letterboxRoundTrip", video |-> v, inputSize |-> sz,
    box |-> <<sx[1], sy[1], sx[2], sy[2]>>] :
     v \in RoundTripVideos, sz \in RoundTripInputs,
     sx \in RoundTripSpans, sy \in RoundTripSpans}

(* preprocessImage records the transform, a box of the frame goes forward  *)
(* through it and back through the remap of parseYoloOutput                *)
CallLetterboxRoundTrip ==
  /\ call.fn = "letterboxRoundTrip" /\ ret = NoCall
  /\ LET meta == preprocessMeta(call.video, call.inputSize, TRUE)
         Back(x, pad, videoSize, inputSize) ==
           ToVideo(letterboxForward(x, pad, meta), pad, videoSize, inputSize,
                   meta, TRUE, meta.scale.den)
     IN ret' = [fn |-> "letterboxRoundTrip",
                meta |-> meta,
                box |-> <<Back(call.box[1], meta.padX, meta.videoWidth, meta.inputWidth),
                          Back(call.box[2], meta.padY, meta.videoHeight, meta.inputHeight),
                          Back(call.box[3], meta.padX, meta.videoWidth, meta.inputWidth),
                          Back(call.box[4], meta.padY, meta.videoHeight, meta.inputHeight)>>]
  /\ UNCHANGED <<compVars, now, inputs, clicks, scope, call>>

(* ----- CombinationClassifier: checkRules ----- *)
(* the modes a rule has a condition on; label[m] stands for faceLabel,     *)
(* handLabel, bodyLabel and imageLabel, results[m] for faceResult,         *)
(* handResult, bodyResult and imageResult                                  *)
RuleModes == {"face", "hand", "body", "classifier"}

(* String.prototype.toLowerCase on the strings of the calls *)
toLowerCase(str) ==
  CASE str = "OK" -> "ok"
    [] str = "Ok" -> "ok"
    [] str = "UP" -> "up"
    [] OTHER -> str

(* a condition is checked when the rule has a label and the mode is active *)
isChecked(rule, activeModes_, m) == rule.label[m] # "" /\ activeModes_[m]

hasCondition_Always(rule, activeModes_) == TRUE

hasCondition(rule, activeModes_) ==
  \E m \in RuleModes : isChecked(rule, activeModes_, m)

(* matches stays true unless a checked condition differs from its result *)
ruleMatches(rule, results, activeModes_) ==
  \A m \in RuleModes :
    isChecked(rule, activeModes_, m)
      => toLowerCase(results[m]) = toLowerCase(rule.label[m])

(* the for loop from rule k on: the matched rule, or none (null) *)
RECURSIVE checkRulesFrom(_, _, _, _)
checkRulesFrom(rules, results, activeModes_, k) ==
  IF k > Len(rules) THEN <<>>
  ELSE IF /\ rules[k].enabled
          /\ ruleMatches(rules[k], results, activeModes_)
          /\ hasCondition(rules[k], activeModes_)
       THEN <<rules[k]>>
       ELSE checkRulesFrom(rules, results, activeModes_, k + 1)

checkRules(rules, results, activeModes_) ==
  checkRulesFrom(rules, results, activeModes_, 1)

Labels(face, hand, body, image) ==
  [m \in RuleModes |-> CASE m = "face" -> face
                         [] m = "hand" -> hand
                         [] m = "body" -> body
                         [] OTHER -> image]

(* rules: one condition, two conditions in other case, none, disabled,    *)
(* a condition on the image result, conditions in upper case               *)
RuleCandidates ==
  {[id |-> "a", label |-> Labels("ok", "", "", ""), enabled |-> TRUE],
   [id |-> "b", label |-> Labels("OK", "ok", "", ""), enabled |-> TRUE],
   [id |-> "c", label |-> Labels("", "", "", ""), enabled |-> TRUE],
   [id |-> "d", label |-> Labels("ok", "", "", ""), enabled |-> FALSE],
   [id |-> "e", label |-> Labels("no", "", "", "cat"), enabled |-> TRUE],
   [id |-> "f", label |-> Labels("", "OK", "UP", ""), enabled |-> TRUE]}

RuleResults ==
  {Labels(face, hand, "up", "cat") : face \in {"OK", "no"},
                                     hand \in {"Ok", ""}}

RuleCalls ==
  {[fn |-> "checkRules", rules |-> r, results |-> res, activeModes |-> a] :
     r \in SeqsUpTo(RuleCandidates, MaxRules), res \in RuleResults,
     a \in [RuleModes -> BOOLEAN]}

CallCheckRules ==
  /\ call.fn = "checkRules" /\ ret = NoCall
  /\ ret' = [fn |-> "checkRules",
             matched |-> checkRules(call.rules, call.results,
                                    call.activeModes)]
  /\ UNCHANGED <<compVars, now, inputs, clicks, scope, call>>

Calls ==
  AlphaCalls \cup NmsCalls \cup ParseCalls \cup RoundTripCalls
    \cup HandCalls \cup BodyCalls \cup RuleCalls

InitCalls ==
  /\ InitComponents
  /\ scope = [modes |-> {"object"}, timed |-> FALSE]
  /\ call \in Calls
  /\ ret = NoCall

NextCalls ==
  \/ CallOverlayAlpha
  \/ CallNonMaxSuppression
  \/ CallParseYoloOutput
  \/ CallLetterboxRoundTrip
  \/ CallNormalizeHand
  \/ CallNormalizeBody
  \/ CallCheckRules

SpecCalls == InitCalls /\ [][NextCalls]_vars

(* ----- outputs of session.run in a detection session ----- *)
RunTensors ==
  {[dims |-> <<7>>, data |-> <<100, 100, 50, 50, 90, 10, 80>>]}
  \cup {[dims |-> <<1, n, 6>>,
         data |-> Rows([k \in 1..n |-> <<50, 50, 150, 150, 90, 2>>])] :
          n \in 0..MaxResult}
RunOutputs ==
  {[fn |-> "parseYoloOutput", dims |-> t.dims, data |-> t.data,
    labels |-> <<"a", "b", "car">>, confidenceThreshold |-> 50,
    iouThreshold |-> 45, useLetterbox |-> TRUE,
    inputSize |-> [width |-> 200, height |-> 200],
    video |-> [width |-> 200, height |-> 200]] : t \in RunTensors}
(* newDetections, as the number of detections decoded from the output *)
Decoded(t) == Len(parseYoloOutput(t))

(* ===================== the components ===================== *)
Init ==
  /\ InitComponents
  /\ scope \in {sc \in Scopes : ~sc.timed}
  /\ call = NoCall /\ ret = NoCall

Next ==
  \/ toggleCamera
  \/ \E c \in AllCaps : toggleMode(c)
  \/ \E v \in Variants : setBodyPoseModel(v)
  \/ handleModelFile
  \/ objStartDetection
  \/ objStopClick
  \/ GetUserMediaResolve
  \/ GetUserMediaReject
  \/ GetUserMediaLate
  \/ VideoLoaded
  \/ \E i \in 1..MaxLoads : LoadResolve(i)
  \/ \E i \in 1..MaxLoads : LoadReject(i)
  \/ DebounceFire
  \/ PollReady
  \/ \E c \in Caps : DetectStartThrows(c)
  \/ \E c \in Caps : LoopExit(c)
  \/ \E c \in Caps, r \in Results : Callback(c, r)
  \/ \E c \in Caps, r \in Results : OldCallback(c, r)
  \/ UploadResolve
  \/ UploadReject
  \/ \E t \in RunOutputs : RunResolve(Decoded(t))
  \/ RunReject
  \/ TimerFire
  \/ StrayTimerFire
  \/ renderLoop

Spec == Init /\ [][Next]_vars

InitTimed ==
  /\ InitComponents
  /\ scope \in {sc \in Scopes : sc.timed /\ "object" \notin sc.modes}
  /\ call = NoCall /\ ret = NoCall

NextTimed ==
  \/ toggleCamera
  \/ \E c \in Caps : toggleMode(c)
  \/ GetUserMediaResolve
  \/ GetUserMediaLate
  \/ VideoLoaded
  \/ \E i \in 1..MaxLoads : LoadResolve(i)
  \/ DebounceFire
  \/ PollReady
  \/ \E c \in Caps : LoopExit(c)
  \/ \E c \in Caps, r \in Results : Callback(c, r)
  \/ renderLoop
  \/ Tick

SpecTimed == InitTimed /\ [][NextTimed]_vars

(* ----- the scheduler under fair timers ----- *)
(* The landmark sessions with the camera's inputs, faults of getUserMedia  *)
(* and of the model loads included; detectStart does not throw and the     *)
(* clock is not observed. A pending setTimeout fires unless it is cleared, *)
(* and a pending setInterval keeps polling, so a poll that stays able to   *)
(* find the video ready does find it ready.                                *)
NextLive ==
  \/ toggleCamera
  \/ \E c \in Caps : toggleMode(c)
  \/ \E v \in Variants : setBodyPoseModel(v)
  \/ GetUserMediaResolve
  \/ GetUserMediaReject
  \/ GetUserMediaLate
  \/ VideoLoaded
  \/ \E i \in 1..MaxLoads : LoadResolve(i)
  \/ \E i \in 1..MaxLoads : LoadReject(i)
  \/ DebounceFire
  \/ PollReady
  \/ \E c \in Caps : LoopExit(c)

SpecLive ==
  InitTimed /\ [][NextLive]_vars /\ WF_vars(DebounceFire) /\ WF_vars(PollReady)

(* ----- GestureTrainer / BodyTrainer: the classification loop ----- *)
(* trainer.timerId is the delay of the pending timer of the current run of *)
(* the effect (0: none), inFlight its classify calls not yet called back,  *)
(* late the calls of cancelled runs not yet called back, network the       *)
(* network object (0: none).                                               *)
Networks == 0..2
TrainerKind == IF "body" \in scope.modes THEN "body" ELSE "gesture"

(* what classify finds: no landmarks, a vector of another length, a vector *)
(* of the expected length (classify then accepts it or throws), and for a  *)
(* body no vector at all                                                   *)
TrainerData ==
  {"none", "short", "vector", "throws"}
    \cup (IF TrainerKind = "body" THEN {"null"} ELSE {})

issueClassify_FallsThrough(t) ==
  [t EXCEPT !.inFlight = @ + 1, !.timerId = 200]

(* network.classify(input, callback); return *)
issueClassify(t) == [t EXCEPT !.inFlight = @ + 1]

(* classify() of a run that is not cancelled; input.length of null throws  *)
(* and ends the loop                                                       *)
classify(t, d) ==
  IF t.isTrained /\ t.network # 0 /\ d # "none"
    THEN CASE d = "vector" -> issueClassify(t)
           [] d = "null" -> t
           [] OTHER -> [t EXCEPT !.timerId = 200]
    ELSE [t EXCEPT !.timerId = 200]

(* isCancelled = true; clearTimeout(timerId) *)
trainerCleanup(t) ==
  [t EXCEPT !.late = @ + t.inFlight, !.inFlight = 0, !.timerId = 0]

(* isTrained or network changes: cleanup, then the effect runs again *)
TrainerEffect(tr, net, d) ==
  /\ <<tr, net>> # <<trainer.isTrained, trainer.network>>
  /\ Input
  /\ LET t == [trainerCleanup(trainer) EXCEPT !.isTrained = tr,
                                              !.network = net]
     IN Become([Cur EXCEPT !.trainer = IF tr THEN classify(t, d) ELSE t])

TrainerTimerFire(d) ==
  /\ trainer.timerId # 0
  /\ Async
  /\ Become([Cur EXCEPT
       !.trainer = classify([trainer EXCEPT !.timerId = 0], d)])

(* the callback of a classify call of the current run *)
ClassifyCallback(r) ==
  /\ trainer.inFlight > 0
  /\ Async
  /\ Become([Cur EXCEPT
       !.trainer = [trainer EXCEPT
          !.inFlight = @ - 1,
          !.classificationResult = IF r > 0 THEN r ELSE @,
          !.timerId = 100]])

(* the callback of a classify call of a cancelled run: if (isCancelled) return *)
LateCallback(r) ==
  /\ trainer.late > 0
  /\ Async
  /\ Become([Cur EXCEPT !.trainer = [trainer EXCEPT !.late = @ - 1]])

InitTrainer ==
  /\ InitComponents
  /\ scope \in {sc \in Scopes : ~sc.timed /\ "face" \in sc.modes}
  /\ call = NoCall /\ ret = NoCall

NextTrainer ==
  \/ \E tr \in BOOLEAN, net \in Networks, d \in TrainerData :
       TrainerEffect(tr, net, d)
  \/ \E d \in TrainerData : TrainerTimerFire(d)
  \/ \E r \in Results : ClassifyCallback(r)
  \/ \E r \in Results : LateCallback(r)

SpecTrainer == InitTrainer /\ [][NextTrainer]_vars

(* ----- the camera through mount and unmount ----- *)
(* The landmark sessions with the frame callbacks of the render loop and   *)
(* the unmount of the component; after the unmount only what is still      *)
(* pending can run.                                                        *)
NextMount ==
  \/ mounted /\ NextLive
  \/ ~mounted /\ GetUserMediaLate
  \/ renderLoop
  \/ Unmount

SpecMount == InitTimed /\ [][NextMount]_vars

TypeOK ==
  /\ isActive \in BOOLEAN
  /\ staleGums \in 0..MaxInputs /\ strayTracks \in 0..MaxInputs
  /\ pendingFrames \in 0..1
  /\ Len(loads) <= MaxLoads
  /\ \A c \in Caps : loop[c] \in LoopStates /\ oldLoop[c] \in LoopStates
  /\ inflight \in 0..MaxRuns
  /\ scope \in Scopes

(* ===================== properties ===================== *)
WouldPaint(c) == Paints(Cur, c)
LoadsFor(sq, c) == Cardinality({i \in 1..Len(sq) : sq[i].await = c})
Slot(c) == IF c = "object" THEN objectDetectionsRef ELSE latestPredictionsRef[c]
StoreTime(c) ==
  IF c \in TimedCaps THEN lastDetectTimeRef[c] ELSE storedAt[c]

(* C1: for every capability at most one inference call is in flight at    *)
(* every moment: at most one detection loop of a landmark model is alive, *)
(* at most one session.run of the object detector is pending.             *)
C1_AtMostOneInFlight ==
  /\ \A c \in Caps : ~(loop[c] # "off" /\ oldLoop[c] # "off")
  /\ inflight <= 1

(* C2: an inference that completes after its capability was deactivated  *)
(* or stopped is dropped: the capability's store slot is not written and  *)
(* consumers are not notified.                                            *)
C2_LateResultDropped ==
  [][ /\ \A r \in Results :
           (RunResolve(r) /\ ~objDetectingRef)
             => /\ detections' = detections
                /\ objectDetectionsRef' = objectDetectionsRef
      /\ \A c \in Caps, r \in Results :
           ((Callback(c, r) \/ OldCallback(c, r))
              /\ (~activeModes[c] \/ ~isDetectingRef[c]))
             => latestPredictionsRef'[c] = latestPredictionsRef[c] ]_vars

(* C3: a cancelled capability has no pending timer, a reset in-flight     *)
(* flag and empty stored results (and timestamp).                         *)
C3_CancelledIsQuiet ==
  /\ \A c \in Caps :
       ~(isActive /\ activeModes[c])
         => /\ latestPredictionsRef[c] = 0
            /\ ~isDetectingRef[c]
            /\ c \in TimedCaps => lastDetectTimeRef[c] = 0
  /\ (~isActive \/ \A c \in Caps : ~activeModes[c])
       => ~detectionStartTimeout /\ ~detectionInterval
  /\ ~objDetectingRef
       => /\ ~detectionTimerRef /\ strayTimers = 0
          /\ detections = 0 /\ objectDetectionsRef = 0

DetectStarted(c) ==
  \/ loop'[c] = "on" /\ loop[c] # "on"
  \/ isDetectingRef'[c] /\ ~isDetectingRef[c]

(* C4 as stated: detectStart is invoked for a capability only in a state  *)
(* where the capability is active, the stream is present, the model is    *)
(* loaded, the video is ready and no inference call of the capability is  *)
(* in flight.                                                             *)
C4_StartRequiresReady_NoCall ==
  [][ \A c \in Caps :
        DetectStarted(c)
          => /\ isActive /\ activeModes[c]
             /\ stream
             /\ modelRef[c] # Null /\ modelsLoaded[c] /\ modelsLoadedRef[c]
             /\ videoReady
             /\ loop[c] = "off" ]_vars

(* C4 amended: detectStart is invoked for a capability only in a state    *)
(* where the capability is active, the stream is present, the model is    *)
(* loaded, the video is ready and the capability's in-flight flag is      *)
(* clear.                                                                 *)
C4_StartRequiresReady ==
  [][ \A c \in Caps :
        DetectStarted(c)
          => /\ isActive /\ activeModes[c]
             /\ stream
             /\ modelRef[c] # Null /\ modelsLoaded[c] /\ modelsLoadedRef[c]
             /\ videoReady
             /\ ~isDetectingRef[c] ]_vars

C4_Witness ==
  \E c \in Caps : isDetectingRef[c] /\ loop[c] = "on" /\ activeModes[c]

(* C5: a model-load failure of one capability leaves what the render loop *)
(* paints for every other capability unchanged.                           *)
C5_LoadFailureIsScoped ==
  [][ \A i \in 1..Len(loads) :
        LoadReject(i)
          => \A d \in AllCaps \ {loads[i].await} :
               WouldPaint(d)' = WouldPaint(d) ]_vars

(* C6: a change of the body variant while body is active and a body model *)
(* exists stops the body detection, discards the body results, marks the  *)
(* body model unloaded and starts loading the selected variant.           *)
C6_VariantSwap ==
  [][ (bodyPoseModel' # bodyPoseModel /\ activeModes["body"]
         /\ modelRef["body"] # Null)
        => /\ loop'["body"] # "on"
           /\ latestPredictionsRef'["body"] = 0
           /\ ~modelsLoaded'["body"]
           /\ \E i \in 1..Len(loads') :
                /\ loads'[i].await = "body"
                /\ loads'[i].bpm = bodyPoseModel' ]_vars

(* C7 as stated: for every capability a frame never draws a stored result *)
(* older than 500 ms.                                                     *)
C7_NoStalePaint_AllCaps ==
  [][ renderLoop
        => \A c \in AllCaps :
             (Slot(c) > 0 /\ now - StoreTime(c) > StaleMs) => ~painted'[c] ]_vars

(* C7 amended: for the hand and body capabilities a frame never draws a   *)
(* stored result older than 500 ms.                                       *)
C7_NoStalePaint ==
  [][ renderLoop
        => \A c \in TimedCaps :
             (Slot(c) > 0 /\ now - StoreTime(c) > StaleMs) => ~painted'[c] ]_vars

C7_Witness ==
  \E c \in TimedCaps :
    /\ activeModesRef[c] /\ error = Null
    /\ latestPredictionsRef[c] > 0
    /\ now - lastDetectTimeRef[c] > StaleMs
    /\ frameAt = now
    /\ ~painted[c]

(* C8: deactivating a capability while one of its inference calls is in   *)
(* flight empties its store slot in that step, and every frame rendered   *)
(* while it is deactivated paints nothing for it, also after the call     *)
(* has completed.                                                         *)
C8_DeactivateMidInference ==
  [][ /\ \A c \in Caps :
           (activeModes[c] /\ ~activeModes'[c] /\ loop[c] # "off")
             => latestPredictionsRef'[c] = 0
      /\ (activeModes["object"] /\ ~activeModes'["object"] /\ inflight > 0)
           => (objectDetectionsRef' = 0 /\ detections' = 0)
      /\ \A c \in AllCaps :
           (renderLoop /\ ~activeModes[c]) => ~painted'[c]
      /\ \A c \in AllCaps :
           (painted'[c] /\ ~painted[c]) => activeModes[c] ]_vars

C8_Witness ==
  /\ isActive /\ ~activeModes["object"] /\ ~objDetectingRef
  /\ inflight = 0
  /\ objectDetectionsRef > 0
  /\ ~painted["object"]

(* C9 as stated: after every inference callback of an active capability   *)
(* the capability's slot equals exactly the results of that inference.    *)
C9_SlotIsLatest_AllResults ==
  [][ /\ \A c \in Caps, r \in Results :
           ((Callback(c, r) \/ OldCallback(c, r)) /\ activeModes[c])
             => latestPredictionsRef'[c] = r
      /\ \A r \in Results :
           (RunResolve(r) /\ objIsActive(Cur))
             => (detections' = r /\ objectDetectionsRef' = r) ]_vars

(* C9 amended: the slot equals exactly the results of the inference after  *)
(* every callback of an active capability, except that an empty hand or   *)
(* body result leaves the slot as it was.                                 *)
C9_SlotIsLatest ==
  [][ /\ \A c \in Caps, r \in Results :
           ((Callback(c, r) \/ OldCallback(c, r)) /\ activeModes[c])
             => latestPredictionsRef'[c] =
                  IF c \in TimedCaps /\ r = 0
                    THEN latestPredictionsRef[c] ELSE r
      /\ \A r \in Results :
           (RunResolve(r) /\ objIsActive(Cur))
             => (detections' = r /\ objectDetectionsRef' = r) ]_vars

C9_Witness ==
  /\ activeModes["hand"] /\ loop["hand"] = "on"
  /\ latestPredictionsRef["hand"] > 0

(* C10: a model load for a capability starts only while the capability is *)
(* active and has no model instance, and re-activating a capability whose *)
(* model is loaded leaves instance and loaded flag alone and starts no    *)
(* load.                                                                  *)
C10_LoadOnlyOnNewActivation ==
  [][ /\ \A c \in Caps :
           LoadsFor(loads', c) > LoadsFor(loads, c)
             => (activeModes'[c] /\ modelRef[c] = Null)
      /\ \A c \in Caps :
           (~activeModes[c] /\ activeModes'[c]
              /\ modelRef[c] # Null /\ modelsLoaded[c])
             => /\ modelRef'[c] = modelRef[c]
                /\ modelsLoaded'[c]
                /\ LoadsFor(loads', c) = LoadsFor(loads, c) ]_vars

(* C11: a failed inference call stops only its own capability's loop and   *)
(* raises only its own error: the loops, stored results, timers and error  *)
(* state of the other capabilities are as before.                          *)
C11_InferenceErrorIsScoped ==
  [][ /\ RunReject
           => /\ ~objDetectingRef' /\ objError' # Null
              /\ error' = error
              /\ loop' = loop /\ oldLoop' = oldLoop
              /\ isDetectingRef' = isDetectingRef
              /\ latestPredictionsRef' = latestPredictionsRef
              /\ lastDetectTimeRef' = lastDetectTimeRef
              /\ detectionInterval' = detectionInterval
              /\ detectionStartTimeout' = detectionStartTimeout
      /\ \A c \in Caps :
           DetectStartThrows(c)
             => /\ ~isDetectingRef'[c] /\ loop'[c] = loop[c]
                /\ error' = error /\ objError' = objError
                /\ objDetectingRef' = objDetectingRef
                /\ inflight' = inflight
                /\ detectionTimerRef' = detectionTimerRef
                /\ objectDetectionsRef' = objectDetectionsRef
                /\ detections' = detections
                /\ latestPredictionsRef' = latestPredictionsRef
                /\ \A d \in Caps \ {c} : loop[d] = "on" => loop'[d] = "on" ]_vars

C11_Witness ==
  /\ objError = "detect" /\ ~objDetectingRef
  /\ loop["face"] = "on" /\ isDetectingRef["face"]
  /\ latestPredictionsRef["face"] > 0

(* C12: no error stops the render loop: in every state, also after a       *)
(* capture or model-load error, the next frame (renderLoop is always       *)
(* enabled) paints the stored snapshot of every active capability.         *)
SnapshotVisible(c) ==
  /\ activeModesRef[c]
  /\ Slot(c) > 0
  /\ c \in TimedCaps => now - lastDetectTimeRef[c] < StaleMs

C12_RenderSurvivesErrors ==
  \A c \in AllCaps : WouldPaint(c) = SnapshotVisible(c)

(* C14: the opacity of a hand or body overlay depends only on the age of   *)
(* the result: 1 up to 200 ms, 1 - (age - 200) / 300 between 200 and       *)
(* 500 ms, not drawn beyond 500 ms; whenever the overlay is drawn the      *)
(* opacity is in (0, 1] and does not grow with age.                        *)
C14_OpacityByAge ==
  (call.fn = "overlayAlpha" /\ ret # NoCall)
    => LET age == call.age
           r == ret.at
       IN /\ age <= 200 => r.drawn /\ r.alpha = FadeSpanMs
          /\ (age > 200 /\ age < 500)
               => r.drawn /\ r.alpha * 300 = (300 - (age - 200)) * FadeSpanMs
          /\ age > 500 => ~r.drawn
          /\ r.drawn => r.alpha > 0 /\ r.alpha <= FadeSpanMs
          /\ (r.drawn /\ ret.next.drawn) => ret.next.alpha <= r.alpha
          /\ ret.next.drawn => r.drawn

C14_Witness ==
  /\ call.fn = "overlayAlpha" /\ ret # NoCall
  /\ call.age = 350 /\ ret.at.drawn /\ ret.at.alpha * 2 = FadeSpanMs

Range(sq) == {sq[i] : i \in DOMAIN sq}
NmsDone == call.fn = "nonMaxSuppression" /\ ret # NoCall
Overlap(i, j) ==
  ~IouBelow(calculateIOU(call.boxes[i], call.boxes[j]), call.threshold)
Outranks(i, j) ==
  \/ call.scores[i] > call.scores[j]
  \/ call.scores[i] = call.scores[j] /\ i < j

(* C16 as stated: of any two candidates whose IoU is at least the         *)
(* threshold, the higher-confidence one is kept and the other removed.     *)
C16_NmsRemovesLower_AnyPair ==
  NmsDone =>
    \A i, j \in 1..Len(call.boxes) :
      (call.scores[i] > call.scores[j] /\ Overlap(i, j))
        => /\ i \in Range(ret.selected)
           /\ j \notin Range(ret.selected)

(* C16: non-maximum suppression never keeps both of two candidates whose   *)
(* IoU is at least the threshold. When the two are the only candidates the *)
(* higher-confidence one (the first of two equal scores) is the one kept;  *)
(* among more candidates every removed box has such an IoU with a kept box *)
(* that outranks it, so a box whose only overlapping betters were removed  *)
(* is kept.                                                                *)
C16_NmsRemovesLower ==
  NmsDone =>
    LET n == Len(call.boxes)
        kept == Range(ret.selected)
    IN /\ (n = 2 /\ Overlap(1, 2))
            => ret.selected = IF Outranks(2, 1) THEN <<2>> ELSE <<1>>
       /\ \A i, j \in kept : i # j => ~Overlap(i, j)
       /\ \A j \in (1..n) \ kept :
            \E i \in kept : Outranks(i, j) /\ Overlap(i, j)
       /\ kept \subseteq 1..n /\ Len(ret.selected) = Cardinality(kept)

C16_Witness ==
  /\ NmsDone /\ Len(call.boxes) = 3
  /\ call.threshold = 45
  /\ call.scores = <<90, 90, 80>>
  /\ Overlap(1, 2) /\ Overlap(2, 3) /\ ~Overlap(1, 3)
  /\ ret.selected = <<1, 3>>

(* C17: for every threshold from 0 to 1, non-maximum suppression keeps     *)
(* both of two boxes whose IoU is 0, and selects nothing from no boxes.    *)
C17_NmsKeepsDisjoint ==
  NmsDone =>
    /\ Len(call.boxes) = 0 => ret.selected = <<>>
    /\ (Len(call.boxes) = 2
          /\ calculateIOU(call.boxes[1], call.boxes[2]).num = 0)
         => Range(ret.selected) = {1, 2}

(* an output whose shape the decoder recognizes in no way *)
UnrecognizedShape(t) ==
  /\ Len(t.dims) \notin {2, 3}
  /\ Len(t.data) % 85 # 0 /\ Len(t.data) % 84 # 0 /\ Len(t.data) % 6 # 0

(* C13: when session.run returns an output of unrecognized shape, the      *)
(* decoder yields no detections, the object store and the detections state *)
(* receive the empty list, no error is raised, the detecting flag is left  *)
(* alone and the next run is scheduled.                                    *)
C13_DecodeFailureIsEmptyFrame ==
  [][\A t \in RunOutputs :
       (UnrecognizedShape(t) /\ RunResolve(Decoded(t)))
         => /\ parseYoloOutput(t) = <<>>
            /\ objectDetectionsRef' = 0
            /\ detections' = 0
            /\ detectionTimerRef'
            /\ objDetectingRef' = objDetectingRef
            /\ objError' = objError
            /\ inflight' = inflight - 1]_vars

C13_Witness ==
  /\ \E t \in RunOutputs : UnrecognizedShape(t) /\ Decoded(t) = 0
  /\ objDetectingRef /\ sessionRef /\ videoReady
  /\ inflight = 0 /\ detectionTimerRef
  /\ objectDetectionsRef = 0 /\ detections = 0
  /\ objError = Null

ParseDone == call.fn = "parseYoloOutput" /\ ret # NoCall
IdentityMeta == call.video = call.inputSize

(* C15: with a frame of the model's input size, the pre-filtered output    *)
(* [[50,50,150,150,0.9,2]] with labels a, b, car and confidence threshold  *)
(* 0.5 decodes to exactly one detection: label car, confidence 0.9, box    *)
(* x = 50, y = 50, width = 100, height = 100.                              *)
C15_PreFilteredScenario ==
  (/\ ParseDone /\ IdentityMeta
   /\ call.dims = <<1, 1, 6>>
   /\ call.data = <<50, 50, 150, 150, 90, 2>>
   /\ call.labels = <<"a", "b", "car">>
   /\ call.confidenceThreshold = 50)
    => /\ Len(ret.detections) = 1
       /\ LET d == ret.detections[1]
          IN /\ d.label = "car" /\ d.classId = 2
             /\ d.confidence = 90 * Hundredths
             /\ d.bbox.x = 50 * d.den.x /\ d.bbox.y = 50 * d.den.y
             /\ d.bbox.width = 100 * d.den.x
             /\ d.bbox.height = 100 * d.den.y

C15_Witness ==
  /\ ParseDone /\ IdentityMeta /\ call.useLetterbox
  /\ call.dims = <<1, 1, 6>>
  /\ call.data = <<50, 50, 150, 150, 90, 2>>
  /\ call.labels = <<"a", "b", "car">>
  /\ call.confidenceThreshold = 50
  /\ Len(ret.detections) = 1 /\ ret.detections[1].label = "car"

(* the output holds exactly the candidates [0,0,100,100] scoring 0.9 and   *)
(* [10,10,100,100] scoring 0.8, as rows or as columns, in either order     *)
TwoCandidates ==
  LET first == <<0, 0, 100, 100, 90>>
      second == <<10, 10, 100, 100, 80>>
      pairs == {<<first, second>>, <<second, first>>}
  IN \/ call.dims = <<1, 2, 5>> /\ call.data \in {Rows(p) : p \in pairs}
     \/ call.dims = <<1, 5, 2>> /\ call.data \in {Columns(p, 5) : p \in pairs}

(* C18: of the candidates [0,0,100,100] with confidence 0.9 and            *)
(* [10,10,100,100] with confidence 0.8, same class, IoU threshold 0.45,    *)
(* only the first is among the decoded detections.                         *)
C18_OverlapScenario ==
  (ParseDone /\ TwoCandidates /\ call.iouThreshold = 45)
    => /\ Len(ret.detections) = 1
       /\ ret.detections[1].confidence = 90 * Hundredths
       /\ ret.detections[1].classId = 0
       /\ IdentityMeta =>
            /\ ret.detections[1].bbox.x = 0
            /\ ret.detections[1].bbox.width = 50 * ret.detections[1].den.x

C18_Witness ==
  /\ ParseDone /\ TwoCandidates /\ call.iouThreshold = 45
  /\ call.dims = <<1, 2, 5>> /\ call.data[5] = 80
  /\ call.confidenceThreshold = 50
  /\ Len(ret.detections) = 1
  /\ ret.detections[1].confidence = 90 * Hundredths

(* C19: every decoded detection lies within the frame and has a positive   *)
(* width and height.                                                       *)
C19_BoxesInsideFrame ==
  ParseDone =>
    \A k \in DOMAIN ret.detections :
      LET d == ret.detections[k]
      IN /\ d.bbox.x >= 0 /\ d.bbox.y >= 0
         /\ d.bbox.x + d.bbox.width <= call.video.width * d.den.x
         /\ d.bbox.y + d.bbox.height <= call.video.height * d.den.y
         /\ d.bbox.width > 0 /\ d.bbox.height > 0

PreFilteredShape == Len(call.dims) = 3 /\ call.dims[3] = 6

(* C20 as stated: a candidate whose class id is outside the label list is  *)
(* returned with a synthetic label, on the pre-filtered path (row with     *)
(* class id 3 of three labels or fewer) as on the generic path.            *)
C20_UnknownClassIsLabelled_BothPaths ==
  (/\ ParseDone
   /\ \/ call.dims = <<1, 1, 6>> /\ call.data = <<50, 50, 150, 150, 90, 3>>
      \/ /\ call.dims = <<1, 1, 7>> /\ Len(call.labels) = 1
         /\ call.data = <<100, 100, 50, 50, 90, 10, 80>>)
    => /\ Len(ret.detections) = 1
       /\ ret.detections[1].classId + 1 \notin DOMAIN call.labels
       /\ ret.detections[1].label = <<"class_", ret.detections[1].classId>>

(* C20: on the generic path a candidate whose class id is outside the      *)
(* label list is returned with the synthetic label class_<id>; on the      *)
(* pre-filtered path such a row is left out and the other rows are         *)
(* returned; every returned label is the listed one when there is one.     *)
C20_UnknownClassIsLabelled ==
  ParseDone =>
    /\ \A k \in DOMAIN ret.detections :
         LET d == ret.detections[k]
         IN d.label = IF d.classId + 1 \in DOMAIN call.labels
                        THEN call.labels[d.classId + 1]
                        ELSE <<"class_", d.classId>>
    /\ PreFilteredShape =>
         \A k \in DOMAIN ret.detections :
           ret.detections[k].classId + 1 \in DOMAIN call.labels
    /\ (/\ call.dims = <<1, 1, 7>> /\ Len(call.labels) = 1
        /\ call.data = <<100, 100, 50, 50, 90, 10, 80>>)
         => /\ Len(ret.detections) = 1
            /\ ret.detections[1].classId = 1
            /\ ret.detections[1].label = <<"class_", 1>>
    /\ (/\ call.dims = <<1, 2, 6>>
        /\ call.data = <<50, 50, 150, 150, 90, 3, 0, 0, 100, 100, 90, 0>>)
         => /\ Len(ret.detections) = 1
            /\ ret.detections[1].classId = 0

C20_Witness ==
  /\ ParseDone
  /\ call.dims = <<1, 1, 7>> /\ Len(call.labels) = 1
  /\ call.data = <<100, 100, 50, 50, 90, 10, 80>>
  /\ call.confidenceThreshold = 50
  /\ Len(ret.detections) = 1
  /\ ret.detections[1].label = <<"class_", 1>>

(* C21: an output whose dims are neither the pre-filtered [_, N, 6] nor of  *)
(* two or three dimensions decodes to the empty list.                      *)
C21_UnrecognizedShapeIsEmpty ==
  (ParseDone /\ ~PreFilteredShape /\ Len(call.dims) \notin {2, 3})
    => ret.detections = <<>>

(* row k (from 1) of a pre-filtered output *)
PreRow(k) == [j \in 1..6 |-> call.data[(k - 1) * 6 + j]]
PassesFilters(row) ==
  /\ row[5] >= call.confidenceThreshold
  /\ row[6] >= 0 /\ row[6] < Len(call.labels)
(* the part of the model input that shows the frame, as <<low, high>> over *)
(* the denominator den, per axis                                           *)
FrameInInput ==
  LET vw == call.video.width
      vh == call.video.height
      iw == call.inputSize.width
      ih == call.inputSize.height
      byWidth == iw * vh <= ih * vw
      n == IF byWidth THEN iw ELSE ih
      d == IF byWidth THEN vw ELSE vh
  IN IF call.useLetterbox
       THEN [den |-> d,
             x |-> <<((iw - ((2 * vw * n + d) \div (2 * d))) \div 2) * d, vw * n>>,
             y |-> <<((ih - ((2 * vh * n + d) \div (2 * d))) \div 2) * d, vh * n>>]
       ELSE [den |-> 1, x |-> <<0, iw>>, y |-> <<0, ih>>]
(* the row's box shows a part of the frame of positive width and height *)
ShowsInFrame(row) ==
  LET f == FrameInInput
  IN /\ Min(row[3] * f.den - f.x[1], f.x[2]) > Max(row[1] * f.den - f.x[1], 0)
     /\ Min(row[4] * f.den - f.y[1], f.y[2]) > Max(row[2] * f.den - f.y[1], 0)
TwoOverlappingRows ==
  /\ ParseDone /\ call.dims = <<1, 2, 6>>
  /\ PassesFilters(PreRow(1)) /\ PassesFilters(PreRow(2))
  /\ calculateIOU(SubSeq(PreRow(1), 1, 4), SubSeq(PreRow(2), 1, 4)).num > 0

(* C22 as stated: two overlapping rows of a pre-filtered output that pass  *)
(* the confidence and class-bounds filters are both returned.              *)
C22_PreFilteredNoNms_OnlyTwoFilters ==
  TwoOverlappingRows => Len(ret.detections) = 2

(* C22: a pre-filtered output is decoded without suppression: the rows     *)
(* returned are, in order, exactly those that pass the confidence and      *)
(* class-bounds filters and whose box shows a part of the frame of         *)
(* positive width and height; two overlapping such rows are both returned. *)
C22_PreFilteredNoNms ==
  (ParseDone /\ PreFilteredShape) =>
    LET kept == SelectSeq([k \in 1..call.dims[2] |-> PreRow(k)],
                          LAMBDA row : PassesFilters(row) /\ ShowsInFrame(row))
    IN /\ Len(ret.detections) = Len(kept)
       /\ \A k \in DOMAIN kept :
            /\ ret.detections[k].confidence = kept[k][5] * Hundredths
            /\ ret.detections[k].classId = kept[k][6]
       /\ (TwoOverlappingRows /\ ShowsInFrame(PreRow(1)) /\ ShowsInFrame(PreRow(2)))
            => Len(ret.detections) = 2

C22_Witness ==
  /\ TwoOverlappingRows
  /\ PreRow(1) = <<0, 0, 100, 100, 90, 0>>
  /\ PreRow(2) = <<10, 10, 100, 100, 80, 0>>
  /\ call.iouThreshold = 45 /\ call.confidenceThreshold = 50
  /\ Len(ret.detections) = 2

(* attribute a (from 0) of box i (from 0) of a generic output *)
Shape == inferLayout(call.dims, Len(call.data))
Attr(i, a) ==
  IF Shape.layout = "CHANNELS_FIRST"
    THEN call.data[a * Shape.numBoxes + i + 1]
    ELSE call.data[i * Shape.numAttrs + a + 1]
WithObjectness ==
  /\ Shape.numAttrs - 5 > 0
  /\ \/ Shape.numAttrs - 5 = Len(call.labels)
     \/ Shape.numAttrs - 4 # Len(call.labels)
ClassScores(i) ==
  {Attr(i, a) : a \in (IF WithObjectness THEN 5 ELSE 4)..(Shape.numAttrs - 1)}
(* best class score times objectness (or 1), in ten-thousandths *)
CandidateConfidence(i) ==
  MaxOf({0} \cup ClassScores(i))
    * (IF WithObjectness THEN Attr(i, 4) ELSE Hundredths)

(* C23: every returned detection has a confidence of at least the          *)
(* confidence threshold; on the generic path that confidence is the best   *)
(* class score of one of the boxes times its objectness, or times 1 when   *)
(* no objectness channel is assumed, and a box is returned whenever some   *)
(* box reaches the threshold.                                              *)
C23_ConfidenceFilter ==
  ParseDone =>
    /\ \A k \in DOMAIN ret.detections :
         ret.detections[k].confidence >= call.confidenceThreshold * Hundredths
    /\ (~PreFilteredShape /\ Shape.layout # "unrecognized") =>
         /\ \A k \in DOMAIN ret.detections :
              \E i \in 0..(Shape.numBoxes - 1) :
                ret.detections[k].confidence = CandidateConfidence(i)
         /\ (\E i \in 0..(Shape.numBoxes - 1) :
               CandidateConfidence(i) >= call.confidenceThreshold * Hundredths)
              <=> ret.detections # <<>>

C23_Witness ==
  /\ ParseDone /\ call.dims = <<1, 2, 7>> /\ Len(call.labels) = 2
  /\ call.data = <<100, 100, 50, 50, 90, 10, 80, 100, 100, 50, 50, 50, 90, 0>>
  /\ call.confidenceThreshold = 50
  /\ Len(ret.detections) = 1
  /\ ret.detections[1].confidence = 80 * 90

(* the confidence of the only box read with and without an objectness      *)
(* channel, in ten-thousandths                                             *)
ReadWithObjectness ==
  MaxOf({0} \cup {Attr(0, a) : a \in 5..(Shape.numAttrs - 1)}) * Attr(0, 4)
ReadWithoutObjectness ==
  MaxOf({0} \cup {Attr(0, a) : a \in 4..(Shape.numAttrs - 1)}) * Hundredths
OneGenericBox ==
  /\ ParseDone /\ ~PreFilteredShape
  /\ Shape.layout # "unrecognized" /\ Shape.numBoxes = 1
  /\ call.confidenceThreshold = 0

(* C25: the decoder reads the box with an objectness channel exactly when  *)
(* attributes - 5 is positive and either attributes - 5 equals the number  *)
(* of labels or attributes - 4 does not; so it does whenever attributes    *)
(* - 5 is positive and neither count equals the number of labels.          *)
C25_ObjectnessRule ==
  OneGenericBox =>
    LET A == Shape.numAttrs
        L == Len(call.labels)
        rule == A - 5 > 0 /\ (A - 5 = L \/ A - 4 # L)
    IN /\ Len(ret.detections) = 1
       /\ ret.detections[1].confidence =
            IF rule THEN ReadWithObjectness ELSE ReadWithoutObjectness
       /\ (A - 5 > 0 /\ A - 5 # L /\ A - 4 # L)
            => ret.detections[1].confidence = ReadWithObjectness

C25_Witness ==
  /\ OneGenericBox
  /\ Shape.numAttrs = 7 /\ Len(call.labels) = 1
  /\ ReadWithObjectness # ReadWithoutObjectness
  /\ ret.detections[1].confidence = ReadWithObjectness

(* C24: a box of the frame taken through the recorded letterbox transform  *)
(* (times the scale, plus the pad) and back through the decoder's remap    *)
(* (minus the pad, divided by the scale) is the original box, for every    *)
(* frame size and input size.                                              *)
C24_LetterboxRoundTrip ==
  (call.fn = "letterboxRoundTrip" /\ ret # NoCall) =>
    \A k \in 1..4 : ret.box[k].num = call.box[k] * ret.box[k].den

C24_Witness ==
  /\ call.fn = "letterboxRoundTrip" /\ ret # NoCall
  /\ call.video = [width |-> 300, height |-> 200]
  /\ call.inputSize = [width |-> 200, height |-> 200]
  /\ ret.meta.padY = 33 /\ ret.meta.scale = [num |-> 200, den |-> 300]
  /\ call.box = <<37, 37, 150, 150>>
  /\ ret.box[2].num = 37 * ret.box[2].den

(* ----- normalizer claims ----- *)
HandDone == ret # NoCall /\ ret.fn = "getNormalizedHandVector"
BodyDone == ret # NoCall /\ ret.fn = "getNormalizedBodyVector"
WristFound == Len(call.keypoints) = 21 /\ call.keypoints[1].finite
HipConfident(i) ==
  Len(call.keypoints) >= 17 /\ call.keypoints[i].confidence > CONF_TH
(* the landmark as the scale step sees it: a gated one lies at (0, 0) *)
Seen(i) ==
  IF call.keypoints[i].confidence > CONF_TH
    THEN <<call.keypoints[i].x, call.keypoints[i].y>>
    ELSE <<0, 0>>
(* shoulder width or, failing that, the height about the hip centre, is    *)
(* above the epsilon                                                       *)
ScaleFound ==
  \/ Seen(6) # Seen(7)
  \/ \E i \in 1..17 : 2 * Seen(i)[2] # Seen(12)[2] + Seen(13)[2]
IsVectorOf(v, size) == ~v.null /\ Len(v.nums) = size

C27_MissingReferenceIsSentinel ==
  /\ (HandDone /\ ~WristFound) => ret.vector = ZeroVector(40)
  /\ (BodyDone /\ (~HipConfident(12) \/ ~HipConfident(13)))
       => ret.vector = NullVector

(* C28: the same offset added to every landmark leaves the output of the   *)
(* hand and of the body normalizer unchanged, gated body landmarks         *)
(* included.                                                               *)
C28_TranslationInvariant ==
  (HandDone \/ BodyDone) => SameVector(ret.vector, ret.shifted)

(* ----- scheduler claims ----- *)
(* what the detection effect depends on: activation, stream, model version *)
(* and the models' loaded flags                                            *)
SchedulerDeps == DetDeps(Cur)
WantsDetection ==
  isActive /\ stream /\ \E c \in Caps : activeModes[c]
LoopStarts(c) == loop[c] # "on" /\ loop'[c] = "on"

(* C29: at most one of the debounce timeout and the readiness poll is      *)
(* pending; every activation, model-loaded or version change cancels the   *)
(* poll and leaves the debounce timeout pending exactly when detection is  *)
(* wanted; the poll is only set up by the debounce timeout firing after    *)
(* the last change; a loop is only started by a poll that finds the video  *)
(* ready.                                                                  *)
C29_DebounceThenPoll ==
  /\ [](~(detectionStartTimeout /\ detectionInterval))
  /\ [][ /\ (SchedulerDeps' # SchedulerDeps)
              => /\ ~detectionInterval'
                 /\ detectionStartTimeout' = WantsDetection'
                 /\ \A c \in Caps : ~LoopStarts(c)
         /\ (detectionInterval' /\ ~detectionInterval)
              => /\ detectionStartTimeout /\ ~detectionStartTimeout'
                 /\ SchedulerDeps' = SchedulerDeps
         /\ \A c \in Caps :
              LoopStarts(c)
                => /\ detectionInterval /\ ~detectionInterval'
                   /\ videoReady
                   /\ closureModes[c] /\ activeModes[c] ]_vars

C29_Witness ==
  /\ \E c \in Caps : loop[c] = "on" /\ isDetectingRef[c]
  /\ ~detectionStartTimeout /\ ~detectionInterval
  /\ inputs >= 3

(* the capability is active with the stream present, its model loaded and  *)
(* the video ready                                                         *)
ReadyFor(c) ==
  isActive /\ activeModes[c] /\ stream /\ modelsLoaded[c] /\ videoReady
(* a loop started by detectStart runs for the capability, on the current   *)
(* model instance or on one a later load has replaced                      *)
Running(c) == loop[c] = "on" \/ oldLoop[c] = "on"

(* C30: whenever a capability is active with the stream present, its model *)
(* loaded and the video ready, then eventually its detection loop is       *)
(* running, unless one of these conditions ends first.                     *)
C30_EventuallyRunning ==
  \A c \in Caps : ReadyFor(c) ~> (Running(c) \/ ~ReadyFor(c))

C30_Witness ==
  \E c \in Caps :
    /\ ReadyFor(c) /\ loop[c] = "on" /\ isDetectingRef[c]
    /\ ~detectionStartTimeout /\ ~detectionInterval
    /\ scope.timed /\ inputs = 2

(* ----- frame and lifecycle claims ----- *)
(* only the activation of c changes, or only the loaded flag of c rises *)
OnlyToggles(c) ==
  /\ isActive' = isActive
  /\ activeModes'[c] # activeModes[c]
  /\ \A d \in AllCaps \ {c} : activeModes'[d] = activeModes[d]
OnlyLoads(c) ==
  /\ isActive' = isActive /\ activeModes' = activeModes
  /\ ~modelsLoaded[c] /\ modelsLoaded'[c]
  /\ \A d \in Caps \ {c} : modelsLoaded'[d] = modelsLoaded[d]

(* C31: a step that only activates or deactivates capability c, or only    *)
(* finishes the load of its model, leaves every other capability's         *)
(* detection loop and stored results as they were.                         *)
C31_SiblingsUntouched ==
  [][ \A c \in Caps :
        (OnlyToggles(c) \/ OnlyLoads(c))
          => \A d \in Caps \ {c} :
               /\ loop'[d] = loop[d]
               /\ latestPredictionsRef'[d] = latestPredictionsRef[d] ]_vars

(* C32: for every capability at most one model load is in progress. *)
C32_OneLoadPerCapability ==
  \A c \in Caps : LoadsFor(loads, c) <= 1

(* C33: while the body capability is active and no model load is pending,  *)
(* the installed body model is of the selected variant.                    *)
C33_SelectedVariantInstalled ==
  (isActive /\ activeModes["body"] /\ loads = <<>> /\ modelRef["body"] # Null)
    => modelRef["body"] = bodyPoseModel

(* C34: while the object detector's detecting flag is set, a loop timer is *)
(* pending or an inference call is in flight.                              *)
C34_DetectingLoopAlive ==
  objDetectingRef => Chains(Cur) > 0

AtOrAbove(i, j) ==
  LET iou == calculateIOU(call.boxes[i], call.boxes[j])
  IN iou.num * Hundredths >= call.threshold * iou.den

(* C37: non-maximum suppression returns indices without duplicates in      *)
(* non-increasing score order, among them a highest-scoring box when there *)
(* is any box; no two returned boxes have IoU at or above the threshold,   *)
(* and every box not returned has IoU at or above the threshold with a     *)
(* returned box of equal or higher score.                                  *)
C37_NmsPostcondition ==
  NmsDone =>
    LET n == Len(call.boxes)
        sel == ret.selected
        kept == Range(sel)
    IN /\ kept \subseteq 1..n
       /\ \A k, l \in DOMAIN sel :
            k < l => /\ sel[k] # sel[l]
                     /\ call.scores[sel[k]] >= call.scores[sel[l]]
       /\ n > 0 => \E i \in kept : \A j \in 1..n :
                     call.scores[i] >= call.scores[j]
       /\ \A i, j \in kept : i # j => ~AtOrAbove(i, j)
       /\ \A j \in (1..n) \ kept :
            \E i \in kept : call.scores[i] >= call.scores[j] /\ AtOrAbove(i, j)

(* the second box has IoU 0.25, exactly the threshold, with the first *)
C37_Witness ==
  /\ NmsDone /\ call.threshold = 25
  /\ call.boxes = <<(<<0, 0, 100, 100>>), (<<60, 0, 160, 100>>),
                    (<<200, 0, 300, 100>>)>>
  /\ call.scores = <<90, 80, 80>>
  /\ ret.selected = <<1, 3>>

(* ----- combination rules ----- *)
RulesDone == call.fn = "checkRules" /\ ret # NoCall

(* rule k of the call is enabled, has a non-empty condition on an active   *)
(* mode, and each such condition equals the mode's result but for case     *)
Qualifies(k) ==
  LET rule == call.rules[k]
      active == {m \in RuleModes : call.activeModes[m] /\ rule.label[m] # ""}
  IN /\ rule.enabled
     /\ active # {}
     /\ \A m \in active :
          toLowerCase(rule.label[m]) = toLowerCase(call.results[m])

(* C40: the matched rule is the first rule in list order that is enabled,  *)
(* has a non-empty condition on an active mode and whose every non-empty   *)
(* condition on an active mode equals that mode's result but for case;     *)
(* when no rule qualifies the match is empty.                              *)
C40_FirstQualifyingRule ==
  RulesDone =>
    LET ks == {k \in DOMAIN call.rules : Qualifies(k)}
    IN IF ks = {} THEN ret.matched = <<>>
       ELSE \E k \in ks : /\ \A l \in ks : k <= l
                          /\ ret.matched = <<call.rules[k]>>

(* two qualifying rules, the first through conditions in another case; the *)
(* body and image modes are off                                            *)
C40_Witness ==
  /\ RulesDone /\ Len(call.rules) = 2
  /\ call.rules[1].id = "b" /\ call.rules[2].id = "a"
  /\ call.results["face"] = "OK" /\ call.results["hand"] = "Ok"
  /\ call.activeModes["face"] /\ call.activeModes["hand"]
  /\ ~call.activeModes["body"] /\ ~call.activeModes["classifier"]
  /\ ret.matched = <<call.rules[1]>>

(* ----- frame callbacks of the render loop ----- *)
(* C38: at most one frame callback of the render loop is pending at any    *)
(* time, whatever re-runs of the detection effect came before, and none is *)
(* pending once the component is unmounted.                                *)
C38_OneFramePending ==
  /\ pendingFrames <= 1
  /\ ~mounted => pendingFrames = 0

(* unmounted after the detection effect re-ran for the camera, a mode, the *)
(* stream and a loaded model                                               *)
C38_Witness ==
  /\ ~mounted /\ pendingFrames = 0
  /\ isActive /\ stream /\ modelVersion > 0
  /\ \E c \in Caps : activeModes[c] /\ modelsLoaded[c]

(* ----- media tracks of the camera ----- *)
LateArrival == staleGums' < staleGums

(* C39: a stream whose acquisition completes after its run of the camera   *)
(* effect was cleaned up is stopped at once and never stored; once the     *)
(* camera is inactive and no acquisition is pending, no media track is     *)
(* live.                                                                   *)
C39_NoTrackLeftLive ==
  /\ []((~isActive /\ ~gumPending /\ staleGums = 0)
          => (~streamLive /\ strayTracks = 0))
  /\ [][LateArrival => /\ stream' = stream /\ srcObject' = srcObject
                       /\ currentStream' = currentStream
                       /\ streamLive' = streamLive
                       /\ strayTracks' = strayTracks]_vars

(* the camera went on, off, on and off; a late stream was stopped *)
C39_Witness ==
  /\ lateStopped /\ inputs = 4
  /\ ~isActive /\ ~gumPending /\ staleGums = 0
  /\ ~stream /\ ~streamLive /\ strayTracks = 0

(* ----- classification loops of the trainers ----- *)
Cancels ==
  <<trainer'.isTrained, trainer'.network>> # <<trainer.isTrained, trainer.network>>

(* C35: in a trainer's classification loop no timer is pending while a     *)
(* classify call is in flight and a call is issued only when none is, so   *)
(* at most one call per loop is in flight; a cancelled loop issues no      *)
(* further call, and the result of a call that comes back after the        *)
(* cancellation is not applied and schedules nothing.                      *)
C35_OneClassifyInFlight ==
  /\ [](trainer.inFlight <= 1 /\ (trainer.inFlight > 0 => trainer.timerId = 0))
  /\ [][/\ trainer'.inFlight > trainer.inFlight
             => (trainer.inFlight = 0 \/ Cancels) /\ trainer'.inFlight = 1
        /\ trainer'.late > trainer.late
             => Cancels /\ trainer'.late = trainer.late + trainer.inFlight
        /\ trainer'.late < trainer.late
             => /\ trainer'.classificationResult = trainer.classificationResult
                /\ trainer'.timerId = trainer.timerId
                /\ trainer'.inFlight = trainer.inFlight]_vars

(* a result is shown, a call of the new loop is in flight and a call of a  *)
(* cancelled loop has not come back                                        *)
C35_Witness ==
  /\ trainer.isTrained /\ trainer.network = 2
  /\ trainer.inFlight = 1 /\ trainer.late = 1
  /\ trainer.classificationResult > 0

====
